---- MODULE Spec2Model ----
(***************************************************************************)
(* Model of the export pipeline of apple-notes-cli (src/src/backup.rs):    *)
(* export_all (automation bridge) and export_all_db (direct store), their  *)
(* worker pools, the bounded task channel, the completion channel and the  *)
(* shared stop flag, together with the pure helpers they call.             *)
(*                                                                         *)
(* Strings are sequences of one-character strings; blobs are sequences of  *)
(* byte values; decoded text is a sequence of code points.                 *)
(***************************************************************************)
EXTENDS Integers, Sequences, FiniteSets, TLC

\* ------------------------------------------------------------------ bounds
MaxNotes == 3
MaxJobs == 2
MaxWork == 7
MaxFairWork == 4
MaxRerunWork == 4
MaxPoolWork == 4
MaxPieces == 4
MaxFolders == 3
MaxTextLen == 4
MaxTitleLen == 3
MaxIdLen == 3
MaxStamp == 2
MaxPk == 12

\* ------------------------------------------------------- program constants
JobsCap == 16
QueueFactor == 2
MaxTitleBytes == 80
ScoreThreshold == 20
WsCap == 200
SampleChars == 2048
WeirdFactor == 20
ReplacementChar == 65533
AppleEpoch == 978307200

\* ----------------------------------------------------------------- helpers
Min(a, b) == IF a < b THEN a ELSE b

Range(s) == {s[i] : i \in DOMAIN s}

\* n copies of c.
Rep(c, n) == [i \in 1..n |-> c]

\* ------------------------------------------------------ sanitize_filename
IllegalChars == {"/", "?", "<", ">", "\\", ":", "*", "|", "\""}

IsLegalChar(c) == c \notin IllegalChars

sanitize_KeepAll(s) == s

\* sanitize(): illegal characters are removed; a name made only of dots is
\* reserved and becomes empty.
sanitize(s) ==
    LET kept == SelectSeq(s, IsLegalChar)
    IN IF kept # <<>> /\ \A i \in DOMAIN kept : kept[i] = "."
       THEN <<>>
       ELSE kept

\* str::trim on a title (whitespace at both ends).
TitleWs == {" ", "\t", "\n", "\r"}

RECURSIVE TrimStart(_)
TrimStart(s) ==
    IF s # <<>> /\ Head(s) \in TitleWs THEN TrimStart(Tail(s)) ELSE s

RECURSIVE TrimEnd(_)
TrimEnd(s) ==
    IF s # <<>> /\ s[Len(s)] \in TitleWs
    THEN TrimEnd(SubSeq(s, 1, Len(s) - 1))
    ELSE s

Trim(s) == TrimEnd(TrimStart(s))

\* rsplit('/').next(): the segment after the last '/', the whole id if none.
RECURSIVE LastSegment(_)
LastSegment(s) ==
    IF s = <<>> THEN <<>>
    ELSE IF s[Len(s)] = "/" THEN <<>>
    ELSE LastSegment(SubSeq(s, 1, Len(s) - 1)) \o <<s[Len(s)]>>

Untitled == <<"U", "n", "t", "i", "t", "l", "e", "d">>

\* Characters that take more than one byte in UTF-8: U+00E9 takes two and
\* U+20AC three; every other character of the model is ASCII.
EAcute == "U+00E9"

Euro == "U+20AC"

Utf8Width(c) == IF c = EAcute THEN 2 ELSE IF c = Euro THEN 3 ELSE 1

\* String::len: the length of s in bytes.
RECURSIVE ByteLen(_)
ByteLen(s) == IF s = <<>> THEN 0 ELSE Utf8Width(Head(s)) + ByteLen(Tail(s))

\* str::is_char_boundary: byte offset k is the start or end of a character.
is_char_boundary(s, k) == \E j \in 0..Len(s) : ByteLen(SubSeq(s, 1, j)) = k

\* String::truncate(new_len) panics when new_len is inside a character.
truncate_panics(s, new_len) == new_len <= ByteLen(s) /\ ~is_char_boundary(s, new_len)

\* String::truncate(new_len) on a character boundary: the first new_len bytes.
truncate(s, new_len) ==
    IF new_len > ByteLen(s) THEN s
    ELSE SubSeq(s, 1, CHOOSE j \in 0..Len(s) : ByteLen(SubSeq(s, 1, j)) = new_len)

\* The title as note_dir_name takes it: trimmed, "Untitled" if empty.
TitleBase(title) == IF Trim(title) = <<>> THEN Untitled ELSE Trim(title)

\* note_dir_name panics in base.truncate(80).
note_dir_name_panics(title) ==
    /\ ByteLen(TitleBase(title)) > MaxTitleBytes
    /\ truncate_panics(TitleBase(title), MaxTitleBytes)

note_dir_name(title, note_id) ==
    LET base0 == TitleBase(title)
        base1 == IF ByteLen(base0) > MaxTitleBytes
                 THEN truncate(base0, MaxTitleBytes)
                 ELSE base0
    IN sanitize(base1) \o <<"-">> \o LastSegment(note_id)

\* PathBuf::push of one component: an empty component adds nothing.
PathPush(dir, part) == IF part = <<>> THEN dir ELSE Append(dir, part)

RECURSIVE PushAll(_, _)
PushAll(dir, parts) ==
    IF parts = <<>> THEN dir
    ELSE PushAll(PathPush(dir, sanitize(Head(parts))), Tail(parts))

\* The output root is the empty path; every path is relative to it.
export_path(root, folder_path, title, note_id) ==
    PathPush(PushAll(root, folder_path), note_dir_name(title, note_id))

\* ------------------------------------------------------------ blob decoder
\* Character classes of char::is_control, is_whitespace, is_alphanumeric on
\* the code points the blobs of the model contain (ASCII and U+FFFD).
IsControl(c) == c < 32 \/ c = 127

IsWhitespace(c) == c \in {9, 10, 11, 12, 13, 32}

IsAlnum(c) == (48 <= c /\ c <= 57) \/ (65 <= c /\ c <= 90) \/ (97 <= c /\ c <= 122)

IsWeird(c) == IsControl(c) /\ c # 10 /\ c # 13 /\ c # 9

IsBreak(c) == IsWeird(c) \/ c = ReplacementChar

CountIf(s, P(_)) == Cardinality({i \in DOMAIN s : P(s[i])})

RECURSIVE StripStart(_, _)
StripStart(s, drop) ==
    IF s # <<>> /\ Head(s) \in drop THEN StripStart(Tail(s), drop) ELSE s

RECURSIVE StripEnd(_, _)
StripEnd(s, drop) ==
    IF s # <<>> /\ s[Len(s)] \in drop
    THEN StripEnd(SubSeq(s, 1, Len(s) - 1), drop)
    ELSE s

WsPoints == {9, 10, 11, 12, 13, 32}

TrimText(s) == StripEnd(StripStart(s, WsPoints), WsPoints)

TrimNul(s) == StripEnd(StripStart(s, {0}), {0})

\* gzip container of the model: magic 1f 8b, method 8, every payload byte
\* shifted by one, and the payload length as trailer.
GzipMagic == <<31, 139>>

Gzip(t) ==
    GzipMagic \o <<8>> \o [i \in 1..Len(t) |-> (t[i] + 1) % 256] \o <<Len(t) % 256>>

StartsWithMagic(data) == Len(data) >= 2 /\ SubSeq(data, 1, 2) = GzipMagic

gunzip(data) ==
    IF Len(data) >= 4 /\ data[3] = 8 /\ data[Len(data)] = (Len(data) - 4) % 256
    THEN [ok |-> TRUE,
          bytes |-> [i \in 1..(Len(data) - 4) |-> (data[i + 3] + 255) % 256]]
    ELSE [ok |-> FALSE, bytes |-> <<>>]

\* std::str::from_utf8 succeeds on the model's blobs iff every byte is ASCII;
\* from_utf8_lossy maps every other byte to U+FFFD.
IsUtf8(bytes) == \A i \in DOMAIN bytes : bytes[i] < 128

from_utf8_lossy(bytes) ==
    [i \in DOMAIN bytes |-> IF bytes[i] < 128 THEN bytes[i] ELSE ReplacementChar]

looks_like_human_text(s) ==
    IF s = <<>> THEN FALSE
    ELSE LET sample == SubSeq(s, 1, Min(Len(s), SampleChars))
             weird == CountIf(sample, IsWeird)
             printable == Len(sample) - weird
         IN printable > 0 /\ weird * WeirdFactor < printable

normalize_text_Identity(s) == s

\* s.replace("\r\n", "\n").replace('\r', "\n"): the CR of every CR LF pair
\* is removed, then every CR left becomes LF.
normalize_text(s) ==
    LET pairs == [i \in DOMAIN s |-> <<s[i], IF i < Len(s) THEN s[i + 1] ELSE 0>>]
        NotCrOfCrLf(p) == ~(p[1] = 13 /\ p[2] = 10)
        kept == SelectSeq(pairs, NotCrOfCrLf)
    IN [i \in DOMAIN kept |-> IF kept[i][1] = 13 THEN 10 ELSE kept[i][1]]

score_block_Uncapped(s) ==
    LET alnum == CountIf(s, IsAlnum)
        quarter == Len(s) \div 4
    IN (IF alnum > quarter THEN alnum - quarter ELSE 0) + CountIf(s, IsWhitespace)

score_block(s) ==
    LET alnum == CountIf(s, IsAlnum)
        ws == CountIf(s, IsWhitespace)
        len == Len(s)
        quarter == len \div 4
        dense == IF alnum > quarter THEN alnum - quarter ELSE 0
    IN dense + Min(ws, WsCap)

\* One pass of the loop of best_effort_extract_text over character ch: a
\* break flushes the current block, any other character is added to it.
LoopStep(st, ch) ==
    IF IsBreak(ch)
    THEN [current |-> <<>>,
          blocks |-> IF TrimText(st.current) # <<>>
                     THEN Append(st.blocks, TrimText(st.current))
                     ELSE st.blocks]
    ELSE [current |-> Append(st.current, ch), blocks |-> st.blocks]

\* The loop over s[lo..hi], in order, from state st: the first half is run
\* to its end (the test on its blocks has it evaluated) before the second.
RECURSIVE LoopOver(_, _, _, _)
LoopOver(s, lo, hi, st) ==
    IF lo > hi THEN st
    ELSE IF lo = hi THEN LoopStep(st, s[lo])
    ELSE LET mid == (lo + hi) \div 2
             left == LoopOver(s, lo, mid, st)
         IN IF Len(left.blocks) >= 0 THEN LoopOver(s, mid + 1, hi, left) ELSE left

\* The blocks of best_effort_extract_text: the loop, then the last block.
SplitBlocks(s) ==
    LET st == LoopOver(s, 1, Len(s), [current |-> <<>>, blocks |-> <<>>])
    IN IF TrimText(st.current) # <<>>
       THEN Append(st.blocks, TrimText(st.current))
       ELSE st.blocks

\* sort_by_key(Reverse(score)) is stable: the first block of the sorted list
\* is the earliest block of highest score.
BestBlock(blocks) ==
    IF blocks = <<>> THEN <<>>
    ELSE LET best == CHOOSE i \in DOMAIN blocks :
                        /\ \A j \in DOMAIN blocks : score_block(blocks[j]) <= score_block(blocks[i])
                        /\ \A j \in 1..(i - 1) : score_block(blocks[j]) < score_block(blocks[i])
         IN IF score_block(blocks[best]) > ScoreThreshold THEN blocks[best] ELSE <<>>

best_effort_extract_text(bytes) ==
    normalize_text(BestBlock(SplitBlocks(from_utf8_lossy(bytes))))

decode_note_markdown(data) ==
    LET gz == gunzip(data)
        zipped == StartsWithMagic(data)
        decoded == IF zipped THEN gz.bytes ELSE data
        s == TrimText(TrimNul(decoded))
        text == best_effort_extract_text(decoded)
    IN IF zipped /\ ~gz.ok
       THEN [ok |-> FALSE, text |-> <<>>, err |-> "gunzip note blob"]
       ELSE IF IsUtf8(decoded) /\ looks_like_human_text(s)
            THEN [ok |-> TRUE, text |-> normalize_text(s), err |-> ""]
            ELSE IF TrimText(text) = <<>>
                 THEN [ok |-> FALSE, text |-> <<>>,
                       err |-> "could not extract text from note blob"]
                 ELSE [ok |-> TRUE, text |-> text, err |-> ""]

\* --------------------------------------------------------------- the store
\* The data source of one run: two folders (one nested) and up to MaxNotes
\* notes.  Note n has primary key n; its id is x://S/N/p<n>.
DigitChars == <<"0", "1", "2", "3", "4", "5", "6", "7", "8", "9">>

RECURSIVE DecimalChars(_)
DecimalChars(n) ==
    IF n < 10 THEN <<DigitChars[n + 1]>>
    ELSE DecimalChars(n \div 10) \o <<DigitChars[(n % 10) + 1]>>

NoteId(n) == <<"x", ":", "/", "/", "S", "/", "N", "/", "p">> \o DecimalChars(n)

Personal == <<"P", "e", "r", "s">>

Archive == <<"A", "r", "c", "h">>

UnknownFolderId == "fX"

UnknownSegment == <<"U", "n", "k", "n", "o", "w", "n">>

FolderRecords ==
    <<[id |-> "f1", path |-> <<Personal>>],
      [id |-> "f2", path |-> <<Personal, Archive>>]>>

NoteTitle(n) == IF n = 1 THEN <<"A">> ELSE <<"B", "/", "C">>

NoteBodyHtml(n) == <<"<", "d", ">", "h", DigitChars[(n % 10) + 1], "<", "/", "d", ">">>

\* The raw content blob of note n in the store: plain text with a CR LF,
\* no data at all, or a gzip stream that does not decompress.
NoteBlob(n) ==
    CASE n % 3 = 1 -> <<72, 105, 13, 10, 48 + (n % 10)>>
      [] n % 3 = 2 -> <<>>
      [] OTHER     -> GzipMagic \o <<0, n % 256>>

VARIABLES
    flavor,        \* "bridge": export_all, "db": export_all_db
    jobs,          \* the jobs argument as passed by the caller
    include_html,  \* the include_html argument
    macos,         \* cfg!(target_os = "macos") of the build
    dupFolders,    \* the folder listing holds one id twice
    numNotes,      \* number of notes of the account
    unknownNote,   \* the note whose folder id is not in the listing, or 0
    pc,            \* position of the calling (producer) thread
    folder_index,  \* FolderIndex.by_id as a set of folder records
    notes,         \* the note listing, once fetched
    idx,           \* position of the producer's for loop in the listing
    cur,           \* the item the producer is about to send
    sent,          \* sent (export_all) / queued (export_all_db)
    completed,     \* completed
    result,        \* what the run returns to the caller
    wpc,           \* position of each worker thread
    witem,         \* the task a worker holds
    wres,          \* the result a worker is about to report
    work,          \* the bounded task channel
    workTx,        \* the producer still holds the task sender
    done,          \* the unbounded completion channel
    stop,          \* the shared AtomicBool
    fs,            \* files on disk: [dir, file] -> content
    dirs,          \* directories on disk
    noteState,     \* per note: Pending, Fetched, Built, Written, Failed
    errs,          \* every failure that happened in the run
    firstErr,      \* the failure that happened first
    firstErrSent,  \* the first failure sent on the completion channel
    calls,         \* backend calls (automation bridge), in order
    storeOpens,    \* store handles opened (direct store)
    messages,      \* progress messages set by export_one_db
    by_pk,         \* NotesDb::list_folders: the folder rows by primary key
    lpc,           \* position of a list_folders call
    todo,          \* rows that by_pk.values() has yet to yield
    start,         \* the row whose path is being resolved
    current,       \* folder_path: current
    seen,          \* folder_path: seen
    parts,         \* folder_path: parts
    iterations,    \* iterations of the loop of folder_path so far
    out,           \* list_folders: out
    listed,        \* what list_folders returns
    fn,            \* a function called on its own
    args,          \* its arguments
    ret            \* what it returned

run == <<flavor, jobs, include_html, macos, dupFolders, numNotes, unknownNote,
          pc, folder_index, notes, idx, cur, sent, completed, result,
          wpc, witem, wres, work, workTx, done, stop, fs, dirs, noteState,
          errs, firstErr, firstErrSent, calls, storeOpens, messages>>

listing == <<by_pk, lpc, todo, start, current, seen, parts, iterations, out, listed>>

call == <<fn, args, ret>>

vars == <<run, listing, call>>

inputs == <<flavor, jobs, include_html, macos, dupFolders, numNotes, unknownNote,
            listing, call>>

\* ------------------------------------------------------------------ values
Error(kind, note, by) == [ok |-> FALSE, kind |-> kind, note |-> note, by |-> by]

Ok == [ok |-> TRUE, kind |-> "ok", note |-> 0, by |-> 0]

NoResult == [ok |-> FALSE, kind |-> "running", note |-> 0, by |-> 0]

NoItem == [note |-> 0]

Producer == 0

\* jobs.min(16): the number of worker threads of the pool.
PoolSize_Uncapped == jobs

PoolSize == Min(jobs, JobsCap)

Workers == 1..PoolSize

\* channel::bounded(jobs * 2)
Capacity == PoolSize * QueueFactor

\* What the store answers for note n.
NoteFolderId(n) ==
    IF n = unknownNote THEN UnknownFolderId
    ELSE IF n % 2 = 1 THEN "f1" ELSE "f2"

\* backend.list_folders / db.list_folders
FolderListing ==
    IF dupFolders THEN FolderRecords \o <<FolderRecords[1]>> ELSE FolderRecords

NoteSummaryOf(n) == [id |-> NoteId(n), title |-> NoteTitle(n), folder_id |-> NoteFolderId(n), pk |-> n]

\* backend.get_note
NoteOf(n) ==
    [id |-> NoteId(n), title |-> NoteTitle(n), folder_id |-> NoteFolderId(n),
     created_at |-> n, modified_at |-> n + 1, body_html |-> NoteBodyHtml(n), pk |-> n]

\* list_db_notes: one DbNoteRow per note; body_html only with include_html.
DbNoteRowOf(n) ==
    [id |-> NoteId(n), title |-> NoteTitle(n), folder_id |-> NoteFolderId(n),
     created_at |-> n, modified_at |-> n + 1,
     body_html |-> IF include_html THEN <<NoteBodyHtml(n)>> ELSE <<>>, pk |-> n]

\* ----------------------------------------------------------- FolderIndex
HasDuplicateId_Never(folders) == FALSE

\* FolderIndex::new: fails on the first id inserted twice.
HasDuplicateId(folders) ==
    \E i, j \in DOMAIN folders : i < j /\ folders[i].id = folders[j].id

\* FolderIndex::folder_path: Some(path) as <<path>>, None as <<>>.
folder_path(index, folder_id) ==
    IF \E f \in index : f.id = folder_id
    THEN <<(CHOOSE f \in index : f.id = folder_id).path>>
    ELSE <<>>

\* ------------------------------------------------------------------ render
\* html_to_markdown (html2md): the text outside the tags.
RECURSIVE StripTags(_, _)
StripTags(s, inTag) ==
    IF s = <<>> THEN <<>>
    ELSE IF Head(s) = "<" THEN StripTags(Tail(s), TRUE)
    ELSE IF Head(s) = ">" THEN StripTags(Tail(s), FALSE)
    ELSE IF inTag THEN StripTags(Tail(s), TRUE)
    ELSE <<Head(s)>> \o StripTags(Tail(s), FALSE)

html_to_markdown(html) == StripTags(html, FALSE)

note_to_markdown(note) ==
    <<"#", " ">> \o note.title \o <<"\n", "\n">> \o Trim(html_to_markdown(note.body_html))

\* ------------------------------------------------------------ IdCodec
DigitValue(c) == CHOOSE d \in 0..9 : DigitChars[d + 1] = c

IsDigitChar(c) == \E d \in 0..9 : DigitChars[d + 1] = c

RECURSIVE ParseDecimal(_)
ParseDecimal(s) ==
    IF Len(s) = 1 THEN DigitValue(s[1])
    ELSE ParseDecimal(SubSeq(s, 1, Len(s) - 1)) * 10 + DigitValue(s[Len(s)])

\* format!("{}", pk) of an i64.
Display(pk) == IF pk < 0 THEN <<"-">> \o DecimalChars(-pk) ELSE DecimalChars(pk)

\* NotesDb::note_id and NotesDb::folder_id, for the store S.
NoteIdOf(pk) == <<"x", ":", "/", "/", "S", "/", "N", "/", "p">> \o Display(pk)

FolderIdOf(pk) == <<"x", ":", "/", "/", "S", "/", "F", "/", "p">> \o Display(pk)

\* str::parse::<i64>: an optional sign and at least one digit.
IsInteger(s) ==
    LET digits == IF s # <<>> /\ s[1] \in {"+", "-"} THEN Tail(s) ELSE s
    IN digits # <<>> /\ \A i \in DOMAIN digits : IsDigitChar(digits[i])

ParseInteger(s) ==
    IF s[1] = "-" THEN 0 - ParseDecimal(Tail(s))
    ELSE IF s[1] = "+" THEN ParseDecimal(Tail(s))
    ELSE ParseDecimal(s)

\* rsplit('/').next() is the whole id when it has no '/': it is never None.
parse_coredata_pk(coredata_id) ==
    LET last == LastSegment(coredata_id)
    IN IF last = <<>> \/ Head(last) # "p"
       THEN [ok |-> FALSE, pk |-> 0]
       ELSE IF IsInteger(Tail(last))
            THEN [ok |-> TRUE, pk |-> ParseInteger(Tail(last))]
            ELSE [ok |-> FALSE, pk |-> 0]

\* ------------------------------------------------------ build and write
Account == "iCloud"

Root == <<>>

Metadata(id, title, path, created, modified) ==
    [id |-> id, title |-> title, account |-> Account, folder_path |-> path,
     created_at |-> created, modified_at |-> modified]

WorkItem(n, dir, meta, md, html) ==
    [note |-> n, note_dir |-> dir, metadata_json |-> meta,
     contents_md |-> md, contents_html |-> html]

\* folder_index.folder_path(..).ok_or_else(..)?: None is an error (as <<>>).
BridgeFolderPath(index, folder_id) == folder_path(index, folder_id)

DbFolderPath_NoSentinel(index, folder_id) ==
    LET found == folder_path(index, folder_id)
    IN IF found = <<>> THEN <<>> ELSE found[1]

\* folder_index.folder_path(..).unwrap_or_else(|| vec!["Unknown"])
DbFolderPath(index, folder_id) ==
    LET found == folder_path(index, folder_id)
    IN IF found = <<>> THEN <<UnknownSegment>> ELSE found[1]

\* build_item after a successful get_note: the folder lookup decides.
build_item(index, note) ==
    LET found == BridgeFolderPath(index, note.folder_id)
    IN IF found = <<>>
       THEN [ok |-> FALSE, item |-> NoItem]
       ELSE [ok |-> TRUE,
             item |-> WorkItem(note.pk,
                               export_path(Root, found[1], note.title, note.id),
                               Metadata(note.id, note.title, found[1],
                                        note.created_at, note.modified_at),
                               note_to_markdown(note),
                               IF include_html THEN <<note.body_html>> ELSE <<>>)]

\* decode_note_markdown on each blob of the store, computed once.
DecodeTable ==
    [d \in {NoteBlob(n) : n \in 1..MaxNotes} |-> decode_note_markdown(d)]

\* What export_one_db hands to write_item for a row whose blob was loaded.
DbWorkItem(index, row, data) ==
    LET dec == DecodeTable[data]
        path == DbFolderPath(index, row.folder_id)
    IN WorkItem(row.pk,
                export_path(Root, path, row.title, row.id),
                Metadata(row.id, row.title, path, row.created_at, row.modified_at),
                IF dec.ok THEN dec.text ELSE <<>>,
                row.body_html)

File(dir, name) == [dir |-> dir, file |-> name]

Ancestors(dir) == {SubSeq(dir, 1, k) : k \in 0..Len(dir)}

WriteFile_KeepExisting(fsys, dir, name, content) ==
    [p \in DOMAIN fsys \cup {File(dir, name)} |->
        IF p \in DOMAIN fsys THEN fsys[p] ELSE content]

\* std::fs::write: the file is created, or truncated and rewritten.
WriteFile(fsys, dir, name, content) ==
    [p \in DOMAIN fsys \cup {File(dir, name)} |->
        IF p = File(dir, name) THEN content ELSE fsys[p]]

WriteSteps_NoHtml(item) == <<"create", "metadata.json", "contents.md">>

\* The steps of write_item, in order; a step that fails ends it.
WriteSteps(item) ==
    <<"create", "metadata.json", "contents.md">>
    \o (IF item.contents_html # <<>> THEN <<"contents.html">> ELSE <<>>)

StepContent(item, step) ==
    CASE step = "metadata.json" -> item.metadata_json
      [] step = "contents.md"   -> item.contents_md
      [] OTHER                  -> item.contents_html[1]

RECURSIVE ApplySteps(_, _, _, _)
ApplySteps(fsys, item, steps, failAt) ==
    IF steps = <<>> \/ Head(steps) = failAt THEN fsys
    ELSE ApplySteps(IF Head(steps) = "create" THEN fsys
                    ELSE WriteFile(fsys, item.note_dir, Head(steps),
                                   StepContent(item, Head(steps))),
                    item, Tail(steps), failAt)

write_item_IgnoreFailure(fsys, dset, item, failAt) ==
    [fs |-> ApplySteps(fsys, item, WriteSteps(item), "none"),
     dirs |-> dset \cup Ancestors(item.note_dir),
     ok |-> failAt = "none"]

\* write_item: failAt names the step that fails, "none" when all succeed.
write_item(fsys, dset, item, failAt) ==
    [fs |-> ApplySteps(fsys, item, WriteSteps(item), failAt),
     dirs |-> IF failAt = "create" THEN dset ELSE dset \cup Ancestors(item.note_dir),
     ok |-> failAt = "none"]

FailPoints(item) == Range(WriteSteps(item))

\* ------------------------------------------------------------- the run
\* No list_folders call of its own is under way.
NoListing ==
    /\ by_pk = <<>> /\ lpc = "idle" /\ todo = {} /\ start = 0 /\ current = 0
    /\ seen = {} /\ parts = <<>> /\ iterations = 0 /\ out = <<>> /\ listed = NoResult

\* No function is called on its own.
NoCall == fn = "none" /\ args = <<>> /\ ret = NoResult

\* The locals of a run as it starts.
Fresh ==
    /\ folder_index = {}
    /\ notes = <<>>
    /\ idx = 1
    /\ cur = NoItem
    /\ sent = 0
    /\ completed = 0
    /\ result = NoResult
    /\ wpc = [w \in Workers |-> "unborn"]
    /\ witem = [w \in Workers |-> NoItem]
    /\ wres = [w \in Workers |-> NoResult]
    /\ work = <<>>
    /\ workTx = TRUE
    /\ done = <<>>
    /\ stop = FALSE
    /\ noteState = [n \in 1..numNotes |-> "Pending"]
    /\ errs = {}
    /\ firstErr = NoResult
    /\ firstErrSent = NoResult
    /\ calls = <<>>
    /\ storeOpens = 0
    /\ messages = {}

Init ==
    /\ flavor \in {"bridge", "db"}
    /\ jobs \in 0..MaxJobs
    /\ include_html \in BOOLEAN
    /\ macos \in (IF flavor = "db" THEN BOOLEAN ELSE {TRUE})
    /\ dupFolders \in BOOLEAN
    /\ numNotes \in {n \in 0..MaxNotes : jobs * n <= MaxWork}
    /\ unknownNote \in {0, 2} \cap 0..numNotes
    /\ pc = "start"
    /\ Fresh
    /\ fs = <<>>
    /\ dirs = {}
    /\ NoListing
    /\ NoCall

\* No export is under way.
NoRun ==
    /\ flavor = "bridge" /\ jobs = 0 /\ include_html = FALSE /\ macos = TRUE
    /\ dupFolders = FALSE /\ numNotes = 0 /\ unknownNote = 0
    /\ pc = "idle"
    /\ Fresh
    /\ fs = <<>>
    /\ dirs = {}

chan == <<work, workTx, done, stop>>

workers == <<wpc, witem, wres>>

disk == <<fs, dirs>>

counters == <<idx, cur, sent, completed>>

AllExited == \A w \in Workers : wpc[w] = "exit"

Call_ByWorker(op, n) == [op |-> op, by |-> 1, note |-> n]

Call(op, n) == [op |-> op, by |-> Producer, note |-> n]

\* An error that ends the run before any worker exists.
\* Bookkeeping of a failure at the moment it happens.
Happens(e) ==
    /\ errs' = errs \cup {e}
    /\ firstErr' = IF firstErr = NoResult THEN e ELSE firstErr

\* Bookkeeping of a result sent on the completion channel.
Sends(r) ==
    firstErrSent' = IF firstErrSent = NoResult /\ ~r.ok THEN r ELSE firstErrSent

history == <<errs, firstErr>>

Fail(e) ==
    /\ result' = e
    /\ pc' = "returned"
    /\ Happens(e)

Validate_AfterSetup ==
    /\ pc = "start"
    /\ pc' = IF flavor = "db" THEN "open_default" ELSE "create_out_dir"
    /\ UNCHANGED <<inputs, folder_index, notes, counters, result, workers, chan, disk,
                   noteState, history, firstErrSent, calls, storeOpens, messages>>

\* jobs == 0 (and, for export_all_db, the platform) is checked first.
Validate ==
    /\ pc = "start"
    /\ IF flavor = "db" /\ ~macos THEN Fail(Error("not_macos", 0, Producer))
       ELSE IF jobs = 0 THEN Fail(Error("jobs_zero", 0, Producer))
       ELSE /\ pc' = IF flavor = "db" THEN "open_default" ELSE "create_out_dir"
            /\ UNCHANGED <<result, history>>
    /\ UNCHANGED <<inputs, folder_index, notes, counters, workers, chan, disk,
                   noteState, firstErrSent, calls, storeOpens, messages>>

\* NotesDb::open_default (export_all_db only).
OpenDefault ==
    /\ pc = "open_default"
    /\ storeOpens' = storeOpens + 1
    /\ \E ok \in BOOLEAN :
         IF ok THEN pc' = "create_out_dir" /\ UNCHANGED <<result, history>>
         ELSE Fail(Error("open_default", 0, Producer))
    /\ UNCHANGED <<inputs, folder_index, notes, counters, workers, chan, disk,
                   noteState, firstErrSent, calls, messages>>

\* std::fs::create_dir_all(&out_dir)
CreateOutDir ==
    /\ pc = "create_out_dir"
    /\ \E ok \in BOOLEAN :
         IF ok THEN /\ pc' = "list_folders"
                    /\ dirs' = dirs \cup {Root}
                    /\ UNCHANGED <<result, history>>
         ELSE Fail(Error("create_out_dir", 0, Producer)) /\ UNCHANGED dirs
    /\ UNCHANGED <<inputs, folder_index, notes, counters, workers, chan, fs,
                   noteState, firstErrSent, calls, storeOpens, messages>>

\* backend.list_folders / db.list_folders, then FolderIndex::new.
ListFolders ==
    /\ pc = "list_folders"
    /\ IF flavor = "bridge"
       THEN calls' = Append(calls, Call("list_folders", 0)) /\ UNCHANGED storeOpens
       ELSE storeOpens' = storeOpens + 1 /\ UNCHANGED calls
    /\ \E ok \in BOOLEAN :
         IF ~ok THEN Fail(Error("list_folders", 0, Producer)) /\ UNCHANGED folder_index
         ELSE IF HasDuplicateId(FolderListing)
         THEN Fail(Error("duplicate_folder_id", 0, Producer)) /\ UNCHANGED folder_index
         ELSE /\ folder_index' = Range(FolderListing)
              /\ pc' = "list_notes"
              /\ UNCHANGED <<result, history>>
    /\ UNCHANGED <<inputs, notes, counters, workers, chan, disk,
                   noteState, firstErrSent, messages>>

\* get_note calls made by list_db_notes when include_html is set.
HtmlFetches == [i \in 1..(IF include_html THEN numNotes ELSE 0) |-> Call("get_note", i)]

\* backend.list_notes / list_db_notes.
ListNotes ==
    /\ pc = "list_notes"
    /\ \E ok \in BOOLEAN :
         IF ~ok
         THEN /\ Fail(Error("list_notes", 0, Producer))
              /\ IF flavor = "bridge"
                 THEN calls' = Append(calls, Call("list_notes", 0)) /\ UNCHANGED storeOpens
                 ELSE storeOpens' = storeOpens + 1 /\ UNCHANGED calls
              /\ UNCHANGED notes
         ELSE /\ pc' = "spawn"
              /\ IF flavor = "bridge"
                 THEN /\ notes' = [i \in 1..numNotes |-> NoteSummaryOf(i)]
                      /\ calls' = Append(calls, Call("list_notes", 0))
                      /\ UNCHANGED storeOpens
                 ELSE /\ notes' = [i \in 1..numNotes |-> DbNoteRowOf(i)]
                      /\ calls' = calls \o HtmlFetches
                      /\ storeOpens' = storeOpens + 4
              /\ UNCHANGED <<result, history>>
    /\ UNCHANGED <<inputs, folder_index, counters, workers, chan, disk,
                   noteState, firstErrSent, messages>>

\* The branch on jobs == 1 of export_all; otherwise the scope spawns the pool
\* and the producer drops its own done_tx and work_rx.
Spawn ==
    /\ pc = "spawn"
    /\ IF flavor = "bridge" /\ PoolSize = 1
       THEN pc' = "seq" /\ UNCHANGED wpc
       ELSE /\ pc' = "loop"
            /\ wpc' = [w \in Workers |-> IF flavor = "db" THEN "open" ELSE "recv"]
    /\ UNCHANGED <<inputs, folder_index, notes, counters, result, witem, wres, chan,
                   disk, noteState, history, firstErrSent, calls, storeOpens, messages>>

\* Outcomes of one call of build_item for the summary at idx: get_note fails,
\* the folder lookup fails, or the item is built.
BuildOutcomes ==
    LET n == notes[idx].pk
        built == build_item(folder_index, NoteOf(n))
    IN {[ok |-> FALSE, item |-> NoItem, err |-> Error("get_note", n, Producer)]}
       \cup
       {IF built.ok
        THEN [ok |-> TRUE, item |-> built.item, err |-> Ok]
        ELSE [ok |-> FALSE, item |-> NoItem, err |-> Error("unknown_folder", n, Producer)]}

\* Outcomes of one call of write_item: the step that fails, or none.
WriteOutcomes(item) ==
    {"none"} \cup FailPoints(item)

\* ---- export_all, jobs == 1: fetch, build and write one note at a time.
SeqBuild ==
    /\ pc = "seq"
    /\ idx <= Len(notes)
    /\ \E o \in BuildOutcomes :
         /\ calls' = Append(calls, Call("get_note", notes[idx].pk))
         /\ IF o.ok
            THEN /\ cur' = o.item
                 /\ pc' = "seq_write"
                 /\ noteState' = [noteState EXCEPT ![notes[idx].pk] = "Built"]
                 /\ UNCHANGED <<result, history>>
            ELSE /\ Fail(o.err)
                 /\ noteState' = [noteState EXCEPT ![notes[idx].pk] = "Failed"]
                 /\ UNCHANGED cur
    /\ UNCHANGED <<inputs, folder_index, notes, idx, sent, completed, workers, chan,
                   disk, firstErrSent, storeOpens, messages>>

SeqWrite ==
    /\ pc = "seq_write"
    /\ \E failAt \in WriteOutcomes(cur) :
         LET w == write_item(fs, dirs, cur, failAt)
         IN /\ fs' = w.fs
            /\ dirs' = w.dirs
            /\ IF w.ok
               THEN /\ pc' = "seq"
                    /\ idx' = idx + 1
                    /\ completed' = completed + 1
                    /\ cur' = NoItem
                    /\ noteState' = [noteState EXCEPT ![cur.note] = "Written"]
                    /\ UNCHANGED <<result, history>>
               ELSE /\ Fail(Error(failAt, cur.note, Producer))
                    /\ noteState' = [noteState EXCEPT ![cur.note] = "Failed"]
                    /\ UNCHANGED <<idx, completed, cur>>
    /\ UNCHANGED <<inputs, folder_index, notes, sent, workers, chan,
                   firstErrSent, calls, storeOpens, messages>>

SeqDone ==
    /\ pc = "seq"
    /\ idx > Len(notes)
    /\ pc' = "returned"
    /\ result' = Ok
    /\ UNCHANGED <<inputs, folder_index, notes, counters, workers, chan, disk,
                   noteState, history, firstErrSent, calls, storeOpens, messages>>

Cancelled_Never == FALSE

\* stop.load(Ordering::Relaxed): the cancellation flag as a thread reads it.
Cancelled == stop

\* ---- export_all, jobs > 1: the producer loop.
\* Top of `for n in notes`: the loop ends, or stop is loaded.
ProdCheck ==
    /\ pc = "loop"
    /\ flavor = "bridge"
    /\ pc' = IF idx > Len(notes) \/ Cancelled THEN "drop" ELSE "build"
    /\ UNCHANGED <<inputs, folder_index, notes, counters, result, workers, chan, disk,
                   noteState, history, firstErrSent, calls, storeOpens, messages>>

\* build_item(...)?: an error leaves the scope closure at once, which drops
\* the work_tx it owns.
ProdBuild ==
    /\ pc = "build"
    /\ \E o \in BuildOutcomes :
         /\ calls' = Append(calls, Call("get_note", notes[idx].pk))
         /\ IF o.ok
            THEN /\ cur' = o.item
                 /\ pc' = "send"
                 /\ noteState' = [noteState EXCEPT ![notes[idx].pk] = "Built"]
                 /\ UNCHANGED <<result, history, workTx>>
            ELSE /\ result' = o.err
                 /\ Happens(o.err)
                 /\ workTx' = FALSE
                 /\ pc' = "join"
                 /\ noteState' = [noteState EXCEPT ![notes[idx].pk] = "Failed"]
                 /\ UNCHANGED cur
    /\ UNCHANGED <<inputs, folder_index, notes, idx, sent, completed, workers,
                   work, done, stop, disk, firstErrSent, storeOpens, messages>>

\* work_tx.send(item).ok(); sent += 1: blocks while the queue is full and a
\* receiver lives; with every receiver gone the send fails and is ignored.
ProdSend ==
    /\ pc = "send"
    /\ flavor = "bridge"
    /\ Len(work) < Capacity \/ AllExited
    /\ work' = IF AllExited THEN work ELSE Append(work, cur)
    /\ sent' = sent + 1
    /\ idx' = idx + 1
    /\ cur' = NoItem
    /\ pc' = "loop"
    /\ UNCHANGED <<inputs, folder_index, notes, completed, result, workers,
                   workTx, done, stop, disk, noteState, history, firstErrSent,
                   calls, storeOpens, messages>>

DropTx_Forgotten ==
    /\ pc = "drop"
    /\ pc' = "collect"
    /\ UNCHANGED <<inputs, folder_index, notes, counters, result, workers, chan,
                   disk, noteState, history, firstErrSent, calls, storeOpens, messages>>

\* drop(work_tx) / drop(task_tx)
DropTx ==
    /\ pc = "drop"
    /\ workTx' = FALSE
    /\ pc' = "collect"
    /\ UNCHANGED <<inputs, folder_index, notes, counters, result, workers,
                   work, done, stop, disk, noteState, history, firstErrSent,
                   calls, storeOpens, messages>>

CollectMore_OffByOne(c, n) == c + 1 < n

\* while completed < sent
CollectMore(c, n) == c < n

Propagate_Generic(res) == Error("worker_hung_up", 0, Producer)

\* res?: the worker's error is what the closure returns.
Propagate(res) == res

\* while completed < sent { done_rx.recv().context("worker hung up")??; ... }
ProdCollect ==
    /\ pc = "collect"
    /\ flavor = "bridge"
    /\ IF ~CollectMore(completed, sent)
       THEN /\ result' = Ok
            /\ pc' = "join"
            /\ UNCHANGED <<done, completed>>
       ELSE IF done # <<>>
       THEN /\ done' = Tail(done)
            /\ IF Head(done).ok
               THEN completed' = completed + 1 /\ UNCHANGED <<result, pc>>
               ELSE result' = Propagate(Head(done)) /\ pc' = "join" /\ UNCHANGED completed
       ELSE /\ AllExited
            /\ result' = Error("worker_hung_up", 0, Producer)
            /\ pc' = "join"
            /\ UNCHANGED <<done, completed>>
    /\ UNCHANGED <<inputs, folder_index, notes, idx, cur, sent, workers,
                   work, workTx, stop, disk, noteState, history, firstErrSent,
                   calls, storeOpens, messages>>

\* std::thread::scope returns once every spawned thread has ended.
Join ==
    /\ pc = "join"
    /\ AllExited
    /\ pc' = "returned"
    /\ UNCHANGED <<inputs, folder_index, notes, counters, result, workers, chan, disk,
                   noteState, history, firstErrSent, calls, storeOpens, messages>>

\* ---- export_all_db: the producer loop.
\* Top of `for row in note_rows`: stop is loaded, queued += 1.
DbCheck ==
    /\ pc = "loop"
    /\ flavor = "db"
    /\ IF idx > Len(notes) \/ Cancelled
       THEN pc' = "drop" /\ UNCHANGED <<sent, cur>>
       ELSE pc' = "send" /\ sent' = sent + 1 /\ cur' = notes[idx]
    /\ UNCHANGED <<inputs, folder_index, notes, idx, completed, result, workers, chan,
                   disk, noteState, history, firstErrSent, calls, storeOpens, messages>>

\* if task_tx.send(row).is_err() { break; }
DbSend ==
    /\ pc = "send"
    /\ flavor = "db"
    /\ Len(work) < Capacity \/ AllExited
    /\ IF AllExited
       THEN pc' = "drop" /\ UNCHANGED <<work, idx>>
       ELSE pc' = "loop" /\ work' = Append(work, cur) /\ idx' = idx + 1
    /\ cur' = NoItem
    /\ UNCHANGED <<inputs, folder_index, notes, sent, completed, result, workers,
                   workTx, done, stop, disk, noteState, history, firstErrSent,
                   calls, storeOpens, messages>>

\* while let Ok(res) = done_rx.recv() { res?; completed += 1; ...
DbCollect ==
    /\ pc = "collect"
    /\ flavor = "db"
    /\ IF done # <<>>
       THEN /\ done' = Tail(done)
            /\ IF Head(done).ok
               THEN completed' = completed + 1 /\ pc' = "collect_check" /\ UNCHANGED result
               ELSE result' = Propagate(Head(done)) /\ pc' = "join" /\ UNCHANGED completed
       ELSE /\ AllExited
            /\ result' = Ok
            /\ pc' = "join"
            /\ UNCHANGED <<done, completed>>
    /\ UNCHANGED <<inputs, folder_index, notes, idx, cur, sent, workers,
                   work, workTx, stop, disk, noteState, history, firstErrSent,
                   calls, storeOpens, messages>>

\* ... if completed >= total || stop.load(Relaxed) { break; } }  Ok(completed)
DbCollectCheck ==
    /\ pc = "collect_check"
    /\ IF completed >= Len(notes) \/ Cancelled
       THEN result' = Ok /\ pc' = "join"
       ELSE pc' = "collect" /\ UNCHANGED result
    /\ UNCHANGED <<inputs, folder_index, notes, counters, workers, chan, disk,
                   noteState, history, firstErrSent, calls, storeOpens, messages>>

\* ---- worker threads
\* open_notes_db_readonly() at the start of an export_all_db worker.
WOpen(w) ==
    /\ wpc[w] = "open"
    /\ storeOpens' = storeOpens + 1
    /\ \E ok \in BOOLEAN :
         IF ok
         THEN /\ wpc' = [wpc EXCEPT ![w] = "recv"]
              /\ UNCHANGED <<wres, history>>
         ELSE /\ wpc' = [wpc EXCEPT ![w] = "openfail_send"]
              /\ wres' = [wres EXCEPT ![w] = Error("open", 0, w)]
              /\ Happens(Error("open", 0, w))
    /\ UNCHANGED <<inputs, pc, folder_index, notes, counters, result, witem, chan,
                   disk, noteState, firstErrSent, calls, messages>>

\* let _ = done_tx.send(Err(e));
WOpenFailSend(w) ==
    /\ wpc[w] = "openfail_send"
    /\ done' = Append(done, wres[w])
    /\ Sends(wres[w])
    /\ wpc' = [wpc EXCEPT ![w] = "openfail_stop"]
    /\ UNCHANGED <<inputs, pc, folder_index, notes, counters, result, witem, wres,
                   work, workTx, stop, disk, noteState, history, calls,
                   storeOpens, messages>>

\* stop.store(true, Relaxed); return;
WOpenFailStop(w) ==
    /\ wpc[w] = "openfail_stop"
    /\ stop' = TRUE
    /\ wpc' = [wpc EXCEPT ![w] = "exit"]
    /\ wres' = [wres EXCEPT ![w] = NoResult]
    /\ UNCHANGED <<inputs, pc, folder_index, notes, counters, result, witem,
                   work, workTx, done, disk, noteState, history, firstErrSent,
                   calls, storeOpens, messages>>

\* while let Ok(item) = work_rx.recv(): a task, or the end of the loop once
\* the channel is empty and its sender dropped.
WRecv(w) ==
    /\ wpc[w] = "recv"
    /\ IF work # <<>>
       THEN /\ witem' = [witem EXCEPT ![w] = Head(work)]
            /\ work' = Tail(work)
            /\ wpc' = [wpc EXCEPT ![w] = "check"]
       ELSE /\ ~workTx
            /\ wpc' = [wpc EXCEPT ![w] = "exit"]
            /\ UNCHANGED <<witem, work>>
    /\ UNCHANGED <<inputs, pc, folder_index, notes, counters, result, wres,
                   workTx, done, stop, disk, noteState, history, firstErrSent,
                   calls, storeOpens, messages>>

\* The outcome of a unit of work on worker w: the files it leaves, its
\* result, and stop.store(true, Relaxed) when the result is an error.
Finish(w, n, outcome, failAt) ==
    /\ fs' = outcome.fs
    /\ dirs' = outcome.dirs
    /\ witem' = [witem EXCEPT ![w] = NoItem]
    /\ wpc' = [wpc EXCEPT ![w] = "send"]
    /\ IF outcome.ok
       THEN /\ wres' = [wres EXCEPT ![w] = Ok]
            /\ noteState' = [noteState EXCEPT ![n] = "Written"]
            /\ UNCHANGED <<history, stop>>
       ELSE /\ wres' = [wres EXCEPT ![w] = Error(failAt, n, w)]
            /\ noteState' = [noteState EXCEPT ![n] = "Failed"]
            /\ stop' = TRUE
            /\ Happens(Error(failAt, n, w))

\* if stop.load(Relaxed) { break; }: the task in hand is dropped unreported.
WCheck(w) ==
    /\ wpc[w] = "check"
    /\ IF Cancelled
       THEN wpc' = [wpc EXCEPT ![w] = "exit"] /\ witem' = [witem EXCEPT ![w] = NoItem]
       ELSE wpc' = [wpc EXCEPT ![w] = "work"] /\ UNCHANGED witem
    /\ UNCHANGED <<inputs, pc, folder_index, notes, counters, result, wres, chan,
                   disk, noteState, history, firstErrSent, calls, storeOpens, messages>>

\* let res = write_item(&item); if res.is_err() { stop.store(true, Relaxed); }
\* (export_all).  The write touches only the disk, which no other thread
\* reads, so the store of stop is part of the same step.
WWrite(w) ==
    /\ wpc[w] = "work"
    /\ flavor = "bridge"
    /\ \E failAt \in WriteOutcomes(witem[w]) :
         Finish(w, witem[w].note, write_item(fs, dirs, witem[w], failAt), failAt)
    /\ UNCHANGED <<inputs, pc, folder_index, notes, counters, result,
                   work, workTx, done, firstErrSent, calls, storeOpens, messages>>

\* export_one_db: the row's blob is loaded and decoded, the folder looked up
\* and the files written; "load" is a failure of load_note_data.
export_one_db(w, row, failAt) ==
    LET parsed == parse_coredata_pk(row.id)
        item == DbWorkItem(folder_index, row, NoteBlob(parsed.pk))
    IN /\ messages' = messages \cup {[text |-> "Decoding", title |-> row.title]}
       /\ IF ~parsed.ok
          THEN Finish(w, row.pk, [fs |-> fs, dirs |-> dirs, ok |-> FALSE], "invalid_id")
          ELSE IF failAt = "load"
          THEN Finish(w, row.pk, [fs |-> fs, dirs |-> dirs, ok |-> FALSE], "load")
          ELSE Finish(w, row.pk, write_item(fs, dirs, item, failAt), failAt)

DbOutcomes(row) ==
    WriteOutcomes(DbWorkItem(folder_index, row, NoteBlob(row.pk)))
    \cup {"load"}

\* let res = export_one_db(...); if res.is_err() { stop.store(true, Relaxed); }
WExport(w) ==
    /\ wpc[w] = "work"
    /\ flavor = "db"
    /\ \/ export_one_db(w, witem[w], "load")   \* load_note_data fails
       \/ \E failAt \in DbOutcomes(witem[w]) \ {"load"} :
             export_one_db(w, witem[w], failAt)
    /\ UNCHANGED <<inputs, pc, folder_index, notes, counters, result,
                   work, workTx, done, firstErrSent, calls, storeOpens>>

Report_AlwaysOk(res) == Ok

\* What a worker reports for a unit: its result.
Report(res) == res

\* let _ = done_tx.send(res);
WSend(w) ==
    /\ wpc[w] = "send"
    /\ done' = Append(done, Report(wres[w]))
    /\ Sends(Report(wres[w]))
    /\ wres' = [wres EXCEPT ![w] = NoResult]
    /\ wpc' = [wpc EXCEPT ![w] = "recv"]
    /\ UNCHANGED <<inputs, pc, folder_index, notes, counters, result, witem,
                   work, workTx, stop, disk, noteState, history, calls,
                   storeOpens, messages>>

ProducerStep ==
    \/ Validate \/ OpenDefault \/ CreateOutDir \/ ListFolders \/ ListNotes \/ Spawn
    \/ SeqBuild \/ SeqWrite \/ SeqDone
    \/ ProdCheck \/ ProdBuild \/ ProdSend \/ DropTx \/ ProdCollect \/ Join
    \/ DbCheck \/ DbSend \/ DbCollect \/ DbCollectCheck

WorkerStep(w) ==
    /\ w \in Workers
    /\ \/ WOpen(w) \/ WOpenFailSend(w) \/ WOpenFailStop(w)
       \/ WRecv(w) \/ WCheck(w) \/ WWrite(w) \/ WExport(w) \/ WSend(w)

Next ==
    \/ Validate \/ OpenDefault \/ CreateOutDir \/ ListFolders \/ ListNotes \/ Spawn
    \/ SeqBuild \/ SeqWrite \/ SeqDone
    \/ ProdCheck \/ ProdBuild \/ ProdSend \/ DropTx \/ ProdCollect \/ Join
    \/ DbCheck \/ DbSend \/ DbCollect \/ DbCollectCheck
    \/ \E w \in Workers : WOpen(w)
    \/ \E w \in Workers : WOpenFailSend(w)
    \/ \E w \in Workers : WOpenFailStop(w)
    \/ \E w \in Workers : WRecv(w)
    \/ \E w \in Workers : WCheck(w)
    \/ \E w \in Workers : WWrite(w)
    \/ \E w \in Workers : WExport(w)
    \/ \E w \in Workers : WSend(w)

Spec == Init /\ [][Next]_vars

\* The runs explored under fairness: the same program on the smaller inputs.
\* ---- Runs that ask for more workers than the cap
\* A request above the cap of export_all: one more job than JobsCap.
OverCap == JobsCap + 1

\* The runs of Init with a small amount of work, and the runs of export_all
\* that ask for OverCap jobs over an empty listing.
PoolInit ==
    /\ flavor \in {"bridge", "db"}
    /\ jobs \in (0..MaxJobs) \cup {OverCap}
    /\ include_html \in (IF jobs > MaxJobs THEN {FALSE} ELSE BOOLEAN)
    /\ macos \in (IF flavor = "db" THEN BOOLEAN ELSE {TRUE})
    /\ dupFolders \in (IF jobs > MaxJobs THEN {FALSE} ELSE BOOLEAN)
    /\ numNotes \in {n \in 0..MaxNotes : jobs * n <= MaxPoolWork}
    /\ jobs > MaxJobs => flavor = "bridge"
    /\ unknownNote \in {0, 2} \cap 0..numNotes
    /\ pc = "start"
    /\ Fresh
    /\ fs = <<>>
    /\ dirs = {}
    /\ NoListing
    /\ NoCall

PoolSpec == PoolInit /\ [][Next]_vars

FairInit == Init /\ jobs * numNotes <= MaxFairWork

\* Every thread that can take a step is eventually scheduled.
FairSpec ==
    /\ FairInit
    /\ [][Next]_vars
    /\ WF_vars(ProducerStep)
    /\ \A w \in 1..Min(MaxJobs, JobsCap) : WF_vars(WorkerStep(w))

\* ------------------------------------------- NotesDb::list_folders (db.rs)
\* A folder row of the store: parent_pk 0 stands for a NULL parent.
DbFolderRow(pk, parent_pk) ==
    [pk |-> pk, name |-> <<97 + ((2 * pk) % 5)>>, parent_pk |-> parent_pk]

\* The tables the store can hold: any set of rows, each parent NULL or any
\* primary key, present or not.
FolderTables ==
    UNION {{[k \in d |-> DbFolderRow(k, par[k])] : par \in [d -> 0..MaxFolders]} :
           d \in SUBSET (1..MaxFolders)}

Reverse(s) == [i \in 1..Len(s) |-> s[Len(s) + 1 - i]]

\* Ordering of Vec<T>: -1, 0 or 1, element by element, a prefix first.
RECURSIVE CmpSeq(_, _, _)
CmpSeq(a, b, deep) ==
    IF a = <<>> /\ b = <<>> THEN 0
    ELSE IF a = <<>> THEN -1
    ELSE IF b = <<>> THEN 1
    ELSE LET c == IF deep THEN CmpSeq(Head(a), Head(b), FALSE)
                  ELSE IF Head(a) < Head(b) THEN -1
                  ELSE IF Head(a) > Head(b) THEN 1 ELSE 0
         IN IF c # 0 THEN c ELSE CmpSeq(Tail(a), Tail(b), deep)

\* Insertion of f after every element that does not come after it.
RECURSIVE InsertByPath(_, _)
InsertByPath(sorted, f) ==
    IF sorted = <<>> THEN <<f>>
    ELSE IF CmpSeq(f.path, Head(sorted).path, TRUE) < 0 THEN <<f>> \o sorted
    ELSE <<Head(sorted)>> \o InsertByPath(Tail(sorted), f)

\* out.sort_by(|a, b| a.path.cmp(&b.path)): a stable sort.
RECURSIVE SortByPath(_)
SortByPath(fl) ==
    IF fl = <<>> THEN <<>>
    ELSE InsertByPath(SortByPath(SubSeq(fl, 1, Len(fl) - 1)), fl[Len(fl)])

Revisited_Never(set, pk) == FALSE

\* !seen.insert(current)
Revisited(set, pk) == pk \in set

ParentPresent_Always(tbl, p) == TRUE

\* by_pk.contains_key(&p)
ParentPresent(tbl, p) == p \in DOMAIN tbl

Finished_Unreversed(ps) == ps

\* parts.reverse(); Ok(parts)
Finished(ps) == Reverse(ps)

CycleError(pk, from) == [ok |-> FALSE, kind |-> "cycle", pk |-> pk, from |-> from]

UnknownPkError(pk, from) == [ok |-> FALSE, kind |-> "unknown_pk", pk |-> pk, from |-> from]

\* open_readonly, account_pk, folder_rows, and the rows put into by_pk.
LfOpen ==
    /\ lpc = "open"
    /\ \E ok \in BOOLEAN :
         IF ok THEN lpc' = "iterate" /\ todo' = DOMAIN by_pk /\ UNCHANGED listed
         ELSE /\ lpc' = "done"
              /\ listed' = [ok |-> FALSE, kind |-> "store", pk |-> 0, from |-> 0]
              /\ UNCHANGED todo
    /\ UNCHANGED <<run, call, by_pk, start, current, seen, parts, iterations, out>>

\* for r in by_pk.values(): the map yields its rows in any order.
LfNext ==
    /\ lpc = "iterate"
    /\ \E r \in todo :
         /\ todo' = todo \ {r}
         /\ start' = r
         /\ current' = r
    /\ seen' = {}
    /\ parts' = <<>>
    /\ iterations' = 0
    /\ lpc' = "walk"
    /\ UNCHANGED <<run, call, by_pk, out, listed>>

\* One iteration of the loop of folder_path; the iteration that breaks also
\* reverses parts and pushes the Folder on out.
WalkStep ==
    /\ lpc = "walk"
    /\ iterations' = iterations + 1
    /\ IF Revisited(seen, current)
       THEN /\ listed' = CycleError(current, start)
            /\ lpc' = "done"
            /\ UNCHANGED <<current, seen, parts, out>>
       ELSE IF current \notin DOMAIN by_pk
       THEN /\ listed' = UnknownPkError(current, start)
            /\ lpc' = "done"
            /\ seen' = seen \cup {current}
            /\ UNCHANGED <<current, parts, out>>
       ELSE LET row == by_pk[current]
                ps == Append(parts, row.name)
            IN /\ seen' = seen \cup {current}
               /\ parts' = ps
               /\ UNCHANGED listed
               /\ IF row.parent_pk = 0 \/ ~ParentPresent(by_pk, row.parent_pk)
                  THEN /\ out' = Append(out, [pk |-> start, name |-> by_pk[start].name,
                                              path |-> Finished(ps)])
                       /\ lpc' = "iterate"
                       /\ UNCHANGED current
                  ELSE /\ current' = row.parent_pk
                       /\ UNCHANGED <<out, lpc>>
    /\ UNCHANGED <<run, call, by_pk, todo, start>>

\* out.sort_by(..); Ok(out)
LfReturn ==
    /\ lpc = "iterate"
    /\ todo = {}
    /\ out' = SortByPath(out)
    /\ listed' = [ok |-> TRUE, kind |-> "ok", pk |-> 0, from |-> 0]
    /\ lpc' = "done"
    /\ UNCHANGED <<run, call, by_pk, todo, start, current, seen, parts, iterations>>

FolderInit ==
    /\ NoRun
    /\ NoCall
    /\ by_pk \in FolderTables
    /\ lpc = "open"
    /\ todo = {} /\ start = 0 /\ current = 0 /\ seen = {} /\ parts = <<>>
    /\ iterations = 0 /\ out = <<>> /\ listed = NoResult

FolderNext == LfOpen \/ LfNext \/ WalkStep \/ LfReturn

FolderSpec == FolderInit /\ [][FolderNext]_vars

\* ------------------------------------------ decode_note_markdown on its own
\* The code points of the texts handed to the decoder: NUL, a control
\* character, LF, CR, space and a letter.
TextPoints == {0, 1, 10, 13, 32, 72}

Texts == UNION {[1..n -> TextPoints] : n \in 0..MaxTextLen}

\* The blob stored for a text: the text itself, or its gzip stream.
BlobOf(t, wrap) == IF wrap = "gzip" THEN Gzip(t) ELSE t

DecodeInit ==
    /\ NoRun
    /\ NoListing
    /\ fn = "decode_note_markdown"
    /\ args \in Texts \X {"plain", "gzip"}
    /\ ret = NoResult

Decode ==
    /\ fn = "decode_note_markdown"
    /\ ret = NoResult
    /\ ret' = decode_note_markdown(BlobOf(args[1], args[2]))
    /\ UNCHANGED <<run, listing, fn, args>>

DecodeSpec == DecodeInit /\ [][Decode]_vars

\* ---- best_effort_extract_text on blobs long enough to score
\* The pieces blobs are made of: a control byte, a byte that is not UTF-8, the
\* line ends, a space, a letter, a word that scores ScoreThreshold on its own
\* and a run of ScoreThreshold spaces.
Pieces ==
    {<<1>>, <<255>>, <<10>>, <<13>>, <<32>>, <<72>>,
     Rep(72, ScoreThreshold + 6), Rep(32, ScoreThreshold)}

RECURSIVE Flatten(_)
Flatten(ps) == IF ps = <<>> THEN <<>> ELSE Head(ps) \o Flatten(Tail(ps))

\* Two letters around more spaces than WsCap, and two words around WsCap
\* spaces whose score is WsCap + 1.
WideGap == <<72>> \o Rep(32, WsCap + 1) \o <<72>>

DenseGap == Rep(72, 34) \o Rep(32, WsCap) \o Rep(72, 34)

Blobs ==
    {Flatten(ps) : ps \in UNION {[1..n -> Pieces] : n \in 0..MaxPieces}}
    \cup {<<255>> \o WideGap \o <<1>> \o DenseGap,
          <<255>> \o DenseGap \o <<1>> \o WideGap}

ExtractInit ==
    /\ NoRun
    /\ NoListing
    /\ fn = "decode_note_markdown"
    /\ args \in Blobs \X {"plain", "gzip"}
    /\ ret = NoResult

ExtractSpec == ExtractInit /\ [][Decode]_vars

\* --------------------------------------------------- export_path on its own
HelloWorld == <<"H", "e", "l", "l", "o", "/", "W", "o", "r", "l", "d">>

\* Titles: every short title over a letter, a slash, a space and a dot, the
\* title of the repository's test, and titles around the length limit.
Titles ==
    UNION {[1..n -> {"A", "/", " ", "."}] : n \in 0..MaxTitleLen}
    \cup {HelloWorld}
    \cup {Rep("H", n) : n \in (MaxTitleBytes - 1)..(MaxTitleBytes + 2)}
    \cup {<<"/">> \o Rep("H", MaxTitleBytes),
          Rep("H", MaxTitleBytes) \o <<"/", "Z">>,
          <<" ">> \o Rep("H", MaxTitleBytes) \o <<"Z">>}

\* Note ids: the id of the repository's test, an id without a slash and an
\* id that ends in a slash.
TestNoteId ==
    <<"x", ":", "/", "/", "a", "b", "c", "/", "N", "/", "p", "1", "2", "3">>

NoteIds == {TestNoteId, <<"p", "7">>, <<"N", "/">>}

FolderPaths ==
    {<<>>, <<Personal>>, <<Personal, Archive>>, <<<<"A", "/", "B">>>>,
     <<<<".", ".">>, Archive>>}

PathInit ==
    /\ NoRun
    /\ NoListing
    /\ fn = "export_path"
    /\ args \in FolderPaths \X Titles \X NoteIds
    /\ ret = NoResult

ExportPath ==
    /\ fn = "export_path"
    /\ ret = NoResult
    /\ ret' = [ok |-> TRUE, dir |-> export_path(Root, args[1], args[2], args[3])]
    /\ UNCHANGED <<run, listing, fn, args>>

PathSpec == PathInit /\ [][ExportPath]_vars

\* ---- note_dir_name on its own
\* Titles: the short ones, and titles around the length limit that hold
\* characters of two and three bytes.
NameTitles ==
    UNION {[1..n -> {"A", "/", " ", "."}] : n \in 0..MaxTitleLen}
    \cup {<<EAcute>>,
          Rep(EAcute, MaxTitleBytes \div 2),
          Rep(EAcute, MaxTitleBytes \div 2 + 1),
          Rep("H", MaxTitleBytes - 1) \o <<EAcute>>,
          Rep("H", MaxTitleBytes - 2) \o <<EAcute, "Z">>,
          Rep("H", MaxTitleBytes - 1) \o <<Euro>>,
          Rep("H", MaxTitleBytes - 3) \o <<Euro, "Z">>,
          Rep("H", MaxTitleBytes) \o <<EAcute>>}

NameInit ==
    /\ NoRun
    /\ NoListing
    /\ fn = "note_dir_name"
    /\ args \in NameTitles \X NoteIds
    /\ ret = NoResult

\* note_dir_name(title, note_id): a name, or a panic of the calling thread.
NoteDirName ==
    /\ fn = "note_dir_name"
    /\ ret = NoResult
    /\ ret' = IF note_dir_name_panics(args[1])
              THEN [ok |-> FALSE, name |-> <<>>]
              ELSE [ok |-> TRUE, name |-> note_dir_name(args[1], args[2])]
    /\ UNCHANGED <<run, listing, fn, args>>

NameSpec == NameInit /\ [][NoteDirName]_vars

\* ---- export_path for two notes of one listing
\* Ids of one store, an id of another store with the same last segment, and
\* an id whose last segment holds a "-".
StoreIds ==
    {<<"S", "/", "p", "1">>, <<"S", "/", "p", "2">>, <<"T", "/", "p", "1">>,
     <<"S", "/", "1", "-", "p", "1">>}

PairTitles == UNION {[1..n -> {"A", "-", "1"}] : n \in 0..MaxTitleLen}

PairFolders == {<<Personal>>, <<Personal, Archive>>}

\* The folder path, title and id of the two notes.
PairInit ==
    /\ NoRun
    /\ NoListing
    /\ fn = "export_path"
    /\ args \in (PairFolders \X PairTitles \X StoreIds)
                 \X (PairFolders \X PairTitles \X StoreIds)
    /\ ret = NoResult

\* export_path called for the one note and for the other.
ExportPaths ==
    /\ fn = "export_path"
    /\ ret = NoResult
    /\ ret' = [ok |-> TRUE,
               dir |-> export_path(Root, args[1][1], args[1][2], args[1][3]),
               other |-> export_path(Root, args[2][1], args[2][2], args[2][3])]
    /\ UNCHANGED <<run, listing, fn, args>>

PairSpec == PairInit /\ [][ExportPaths]_vars

\* ------------------------------------------ a run into a tree that exists
\* The item of note n as a run over the whole folder listing builds it.
FirstItem(n) ==
    IF flavor = "bridge" THEN build_item(Range(FolderRecords), NoteOf(n))
    ELSE [ok |-> TRUE, item |-> DbWorkItem(Range(FolderRecords), DbNoteRowOf(n), NoteBlob(n))]

\* The tree after the first n notes have been exported into an empty root;
\* a note whose item cannot be built leaves nothing.
RECURSIVE Exported(_)
Exported(n) ==
    IF n = 0 THEN [fs |-> <<>>, dirs |-> {Root}]
    ELSE LET prev == Exported(n - 1)
             w == write_item(prev.fs, prev.dirs, FirstItem(n).item, "none")
         IN IF FirstItem(n).ok THEN [fs |-> w.fs, dirs |-> w.dirs] ELSE prev

StaleContent == <<"o", "l", "d">>

\* The same files as an earlier run left them, with other contents.
Stale(tree) ==
    [fs |-> [p \in DOMAIN tree.fs |->
                CASE p.file = "metadata.json" -> [tree.fs[p] EXCEPT !.title = StaleContent]
                  [] p.file = "contents.md" /\ flavor = "db" -> <<0>>
                  [] OTHER -> StaleContent],
     dirs |-> tree.dirs]

\* The run starts in the tree an earlier run of the same export left, with
\* the same or with older contents.
RerunInit ==
    /\ flavor \in {"bridge", "db"}
    /\ jobs \in 0..MaxJobs
    /\ include_html \in BOOLEAN
    /\ macos \in (IF flavor = "db" THEN BOOLEAN ELSE {TRUE})
    /\ dupFolders \in BOOLEAN
    /\ numNotes \in {n \in 0..MaxNotes : jobs * n <= MaxRerunWork}
    /\ unknownNote \in {0, 2} \cap 0..numNotes
    /\ pc = "start"
    /\ Fresh
    /\ \E tree \in {Exported(numNotes), Stale(Exported(numNotes))} :
         fs = tree.fs /\ dirs = tree.dirs
    /\ NoListing
    /\ NoCall

RerunSpec == RerunInit /\ [][Next]_vars

\* ---------------------------------------------- parse_coredata_pk on its own
Pks == (0 - MaxPk)..MaxPk

\* Ids: the rendered ids of every key, the id of the repository's test, and
\* every short string over a few characters.
Ids ==
    {NoteIdOf(pk) : pk \in Pks} \cup {FolderIdOf(pk) : pk \in Pks}
    \cup {TestNoteId}
    \cup UNION {[1..n -> {"p", "/", "1", "-", "x"}] : n \in 0..MaxIdLen}

CodecInit ==
    /\ NoRun
    /\ NoListing
    /\ fn = "parse_coredata_pk"
    /\ args \in Ids
    /\ ret = NoResult

Parse ==
    /\ fn = "parse_coredata_pk"
    /\ ret = NoResult
    /\ ret' = parse_coredata_pk(args)
    /\ UNCHANGED <<run, listing, fn, args>>

CodecSpec == CodecInit /\ [][Parse]_vars

\* ---------------------------------------------- select_note_dates on its own
\* Option<f64>: None is <<>>, Some(v) is <<v>>; v counts half milliseconds.
TicksPerMilli == 2

Or(a, b) == IF a # <<>> THEN a ELSE b

UnwrapOr(a, default) == IF a # <<>> THEN a[1] ELSE default

\* (secs * 1000.0) as i64 rounds toward zero.
Millis(secs) ==
    IF secs >= 0 THEN secs \div TicksPerMilli ELSE 0 - ((0 - secs) \div TicksPerMilli)

\* The instant ms milliseconds from 2001-01-01T00:00:00Z.
apple_epoch_seconds(secs) == [unix |-> AppleEpoch, ms |-> Millis(secs)]

select_note_dates_OldestFirst(raw) ==
    LET created == UnwrapOr(Or(Or(raw.c1, raw.c2), raw.c3), 0)
        modified == UnwrapOr(Or(raw.m1, raw.m2), created)
    IN [ok |-> TRUE, created_at |-> apple_epoch_seconds(created),
        modified_at |-> apple_epoch_seconds(modified)]

\* select_note_dates once the row of the note has been read.
select_note_dates(raw) ==
    LET created == UnwrapOr(Or(Or(raw.c3, raw.c2), raw.c1), 0)
        modified == UnwrapOr(Or(raw.m1, raw.m2), created)
    IN [ok |-> TRUE, created_at |-> apple_epoch_seconds(created),
        modified_at |-> apple_epoch_seconds(modified)]

Fields == {<<>>} \cup {<<v>> : v \in (0 - MaxStamp)..MaxStamp}

DateInit ==
    /\ NoRun
    /\ NoListing
    /\ fn = "select_note_dates"
    /\ args \in [c1 : Fields, c2 : Fields, c3 : Fields, m1 : Fields, m2 : Fields]
    /\ ret = NoResult

\* The query for the row can fail; otherwise the dates are selected.
SelectDates ==
    /\ fn = "select_note_dates"
    /\ ret = NoResult
    /\ \E read \in BOOLEAN :
         ret' = IF read THEN select_note_dates(args) ELSE Error("read_note_dates", 0, Producer)
    /\ UNCHANGED <<run, listing, fn, args>>

DateSpec == DateInit /\ [][SelectDates]_vars

\* ------------------------------------------------------------ properties
Returned == pc = "returned"

PoolRun == flavor = "db" \/ PoolSize > 1

WorkerFailed == \E e \in errs : e.by \in Workers

AllWritten == \A n \in 1..numNotes : noteState[n] = "Written"

\* C1: in export_all_db, once a worker has failed (its connection did not
\* open, or export_one_db returned an error) the run never returns success.
C1_WorkerFailureIsReturned ==
    (Returned /\ flavor = "db" /\ WorkerFailed) => ~result.ok

\* C2: in export_all with jobs > 1, once write_item has failed in a worker
\* the run returns an error, and the error of a worker.
C2_BridgeWriteFailureIsError ==
    (Returned /\ flavor = "bridge" /\ PoolSize > 1 /\ WorkerFailed)
        => (~result.ok /\ result \in errs)

C2_Witness ==
    /\ Returned /\ flavor = "bridge" /\ PoolSize > 1
    /\ \E e \in errs : e.by \in Workers /\ e.kind = "contents.md" /\ result = e
    /\ \E n \in 1..numNotes : noteState[n] = "Written"

\* C3: every run ends: the producer returns and every worker thread it
\* spawned has exited, whatever fails and however the threads interleave.
C3_EveryRunTerminates ==
    <>(Returned /\ \A w \in Workers : wpc[w] \in {"unborn", "exit"})

C3_Witness ==
    /\ Returned /\ PoolRun /\ Workers # {} /\ AllExited
    /\ WorkerFailed
    /\ \E n \in 1..numNotes : noteState[n] = "Pending"

\* C4: a run that returns success has written every note of the listing.
C4_SuccessMeansAllWritten ==
    (Returned /\ result.ok) => AllWritten

\* C4, export_all alone.
C4_BridgeSuccessMeansAllWritten ==
    (Returned /\ result.ok /\ flavor = "bridge") => AllWritten

\* What a run with jobs = 1 leaves behind when nothing fails: each note of
\* the listing fetched, built and written in listing order.
RECURSIVE SeqExport(_, _, _)
SeqExport(i, fsys, dset) ==
    IF i > Len(notes) THEN [fs |-> fsys, dirs |-> dset]
    ELSE LET built == build_item(folder_index, NoteOf(notes[i].pk))
             w == write_item(fsys, dset, built.item, "none")
         IN SeqExport(i + 1, w.fs, w.dirs)

\* The item of note n as the run's flavor builds it.
ItemOf(n) ==
    IF flavor = "bridge" THEN build_item(folder_index, NoteOf(n)).item
    ELSE DbWorkItem(folder_index, DbNoteRowOf(n), NoteBlob(n))

FilesIn(dir) == {p.file : p \in {q \in DOMAIN fs : q.dir = dir}}

\* C5: a successful export_all with jobs > 1 leaves exactly the files, with
\* exactly the contents, and the directories that the jobs = 1 loop leaves.
C5_SameFilesAsJobs1 ==
    (Returned /\ result.ok /\ flavor = "bridge" /\ PoolSize > 1)
        => (fs = SeqExport(1, <<>>, {Root}).fs /\ dirs = SeqExport(1, <<>>, {Root}).dirs)

C5_Witness ==
    /\ Returned /\ result.ok /\ flavor = "bridge" /\ PoolSize > 1
    /\ numNotes = MaxNotes /\ include_html
    /\ fs = SeqExport(1, <<>>, {Root}).fs

\* C6: after a run that returned success with all N notes written, each
\* note's directory holds metadata.json and contents.md, and contents.html
\* exactly when include_html is set; the tree holds 2N or 3N files.
C6_FileLayout ==
    (Returned /\ result.ok /\ AllWritten) =>
        /\ \A n \in 1..numNotes :
             FilesIn(ItemOf(n).note_dir) =
                 {"metadata.json", "contents.md"}
                 \cup (IF include_html THEN {"contents.html"} ELSE {})
        /\ Cardinality(DOMAIN fs) = numNotes * (IF include_html THEN 3 ELSE 2)

C6_Witness ==
    /\ Returned /\ result.ok /\ AllWritten
    /\ numNotes = MaxNotes /\ include_html
    /\ Cardinality(DOMAIN fs) = 3 * MaxNotes

\* C7: with jobs = 0 the run returns an error and nothing has been done:
\* no directory created, no file written, no backend call, no store opened.
C7_ZeroJobsRejectedFirst ==
    (jobs = 0 /\ pc # "start") =>
        /\ Returned /\ ~result.ok
        /\ dirs = {} /\ fs = <<>> /\ calls = <<>> /\ storeOpens = 0 /\ notes = <<>>

C7_Witness ==
    jobs = 0 /\ Returned /\ result.kind = "jobs_zero" /\ flavor = "db"

\* C8 as stated: the error a failed pool run returns is the first error that
\* happened in the run.
C8_FirstErrorReturned ==
    (Returned /\ PoolRun /\ ~result.ok) => result = firstErr

\* C8: the error a failed pool run returns is an error that happened in the
\* run: the producer's own, or the first failure sent on the done channel.
C8_ReturnedErrorHappened ==
    (Returned /\ PoolRun /\ ~result.ok) =>
        /\ result \in errs
        /\ result.by = Producer \/ result = firstErrSent

C8_Witness ==
    /\ Returned /\ PoolRun /\ ~result.ok
    /\ result \in errs /\ result # firstErr /\ result.by \in Workers
    /\ result = firstErrSent

\* The directory name of note n, and whether a file of the tree lies in a
\* directory of that name.
DirNameOf(n) == note_dir_name(NoteTitle(n), NoteId(n))

HasFilesOf(n) ==
    \E p \in DOMAIN fs : p.dir # <<>> /\ p.dir[Len(p.dir)] = DirNameOf(n)

\* C9: a note whose folder is not in the listing is never exported by
\* export_all, whose run returns an error; export_all_db exports it under
\* the one-segment path "Unknown", raises no error for it and goes on.
C9_UnknownFolder ==
    \A n \in 1..numNotes :
        (n = unknownNote) =>
            IF flavor = "bridge"
            THEN /\ ~HasFilesOf(n)
                 /\ noteState[n] \in {"Pending", "Failed"}
                 /\ Returned => ~result.ok
            ELSE /\ \A e \in errs : e.kind # "unknown_folder"
                 /\ noteState[n] = "Written" =>
                      /\ ItemOf(n).note_dir = <<UnknownSegment, DirNameOf(n)>>
                      /\ File(ItemOf(n).note_dir, "metadata.json") \in DOMAIN fs
                      /\ fs[File(ItemOf(n).note_dir, "metadata.json")].folder_path
                            = <<UnknownSegment>>

C9_Witness ==
    /\ flavor = "db" /\ unknownNote # 0 /\ Returned /\ result.ok /\ AllWritten
    /\ numNotes > unknownNote
    /\ File(<<UnknownSegment, DirNameOf(unknownNote)>>, "contents.md") \in DOMAIN fs

\* What a reader of the export can tell about note n: its contents.md and
\* the messages printed about its title.
Observed(n) ==
    [md |-> fs[File(ItemOf(n).note_dir, "contents.md")],
     log |-> {m \in messages : m.title = NoteTitle(n)}]

Undecodable(n) == NoteBlob(n) # <<>> /\ ~decode_note_markdown(NoteBlob(n)).ok

\* C10: in export_all_db a note whose blob cannot be decoded is written with
\* empty markdown, and what the export shows for it differs from what it
\* shows for a note of the same title whose blob is empty.
C10_DecodeLossVisible ==
    \A a, b \in 1..numNotes :
        (/\ flavor = "db"
         /\ noteState[a] = "Written" /\ noteState[b] = "Written"
         /\ Undecodable(a) /\ NoteBlob(b) = <<>>
         /\ NoteTitle(a) = NoteTitle(b))
        => (Observed(a).md = <<>> /\ Observed(a) # Observed(b))

DuplicateId == Error("duplicate_folder_id", 0, Producer)

\* Two folders of the listing share an id.
ListingRepeatsId ==
    Cardinality({FolderListing[i].id : i \in DOMAIN FolderListing}) < Len(FolderListing)

BeforeIndex == pc \in {"start", "open_default", "create_out_dir", "list_folders"}

\* C11: FolderIndex::new fails exactly when the listing holds an id twice;
\* the run then returns that error with no note listed, fetched or written.
\* An index that was built answers every listed id with its path and any
\* other id with none.
C11_DuplicateIdAbortsEarly ==
    /\ DuplicateId \in errs =>
         /\ ListingRepeatsId
         /\ Returned /\ result = DuplicateId
         /\ notes = <<>> /\ fs = <<>> /\ dirs = {Root}
         /\ \A i \in DOMAIN calls : calls[i].op = "list_folders"
         /\ flavor = "db" => storeOpens = 2
         /\ \A n \in 1..numNotes : noteState[n] = "Pending"
         /\ \A w \in Workers : wpc[w] = "unborn"
    /\ (ListingRepeatsId /\ ~BeforeIndex) => (Returned /\ ~result.ok)
    /\ (~ListingRepeatsId /\ ~BeforeIndex /\ folder_index = {}) =>
         (Returned /\ result.kind \in {"not_macos", "jobs_zero", "open_default",
                                       "create_out_dir", "list_folders"})
    /\ folder_index # {} =>
         /\ ~ListingRepeatsId
         /\ \A i \in DOMAIN FolderListing :
              folder_path(folder_index, FolderListing[i].id) = <<FolderListing[i].path>>
         /\ folder_path(folder_index, UnknownFolderId) = <<>>

C11_Witness ==
    /\ Returned /\ result = DuplicateId /\ flavor = "db"
    /\ dirs = {Root} /\ numNotes = MaxNotes /\ notes = <<>>

\* The pointer the walk from pk holds on its k-th iteration (k from 0), or 0
\* once the walk has met a NULL or absent parent.
RECURSIVE Pointer(_, _, _)
Pointer(tbl, pk, k) ==
    IF k = 0 THEN pk
    ELSE LET q == Pointer(tbl, pk, k - 1)
         IN IF q \in DOMAIN tbl /\ tbl[q].parent_pk \in DOMAIN tbl
            THEN tbl[q].parent_pk ELSE 0

Repeats(tbl, pk, j) ==
    Pointer(tbl, pk, j) # 0 /\ \E i \in 0..(j - 1) : Pointer(tbl, pk, i) = Pointer(tbl, pk, j)

\* The parent chain of pk runs into a cycle.
ReachesCycle(tbl, pk) == \E j \in 1..Cardinality(DOMAIN tbl) : Repeats(tbl, pk, j)

\* The first pointer of the chain of pk that the walk holds a second time.
RevisitedPointer(tbl, pk) ==
    Pointer(tbl, pk, CHOOSE j \in 1..Cardinality(DOMAIN tbl) :
                         /\ Repeats(tbl, pk, j)
                         /\ \A i \in 1..(j - 1) : ~Repeats(tbl, pk, i))

\* C12: a walk of folder_path ends within (number of folders + 1)
\* iterations; a chain that reaches a cycle never yields a path, and the
\* cycle error of the walk from a folder names the first pointer revisited
\* on that folder's chain, which the table and the folder determine.
C12_WalkNeverLoops ==
    /\ iterations <= Cardinality(DOMAIN by_pk) + 1
    /\ listed.kind = "cycle" =>
         /\ ReachesCycle(by_pk, listed.from)
         /\ listed.pk = RevisitedPointer(by_pk, listed.from)
    /\ \A i \in DOMAIN out : ~ReachesCycle(by_pk, out[i].pk)
    /\ listed.ok => \A k \in DOMAIN by_pk : ~ReachesCycle(by_pk, k)

C12_Witness ==
    /\ listed.kind = "cycle" /\ listed.pk # listed.from
    /\ iterations = Cardinality(DOMAIN by_pk) + 1
    /\ by_pk[listed.pk].parent_pk # listed.pk

\* The names from the last folder present on the chain of pk down to pk.
RECURSIVE NamesDownTo(_, _)
NamesDownTo(tbl, pk) ==
    IF tbl[pk].parent_pk \in DOMAIN tbl
    THEN Append(NamesDownTo(tbl, tbl[pk].parent_pk), tbl[pk].name)
    ELSE <<tbl[pk].name>>

\* The chain of pk is free of cycles and ends at a parent absent from tbl.
Dangles(tbl, pk) ==
    /\ ~ReachesCycle(tbl, pk)
    /\ \E k \in 0..Cardinality(DOMAIN tbl) :
         /\ Pointer(tbl, pk, k) # 0
         /\ tbl[Pointer(tbl, pk, k)].parent_pk \notin DOMAIN tbl \cup {0}

\* C13: a parent id absent from the table is no error: the folder still gets
\* a path, the names from the last folder present on its chain down to
\* itself, and the listing fails for no other reason than a cycle or the
\* store.
C13_DanglingParentIsNoError ==
    /\ listed.kind # "unknown_pk"
    /\ \A i \in DOMAIN out :
         Dangles(by_pk, out[i].pk) => out[i].path = NamesDownTo(by_pk, out[i].pk)
    /\ (~listed.ok /\ lpc = "done" /\ listed.kind # "store")
         => ReachesCycle(by_pk, listed.from)
    /\ (listed.ok /\ lpc = "done")
         => {out[i].pk : i \in DOMAIN out} = DOMAIN by_pk

C13_Witness ==
    /\ listed.ok /\ lpc = "done"
    /\ \E i \in DOMAIN out : Dangles(by_pk, out[i].pk) /\ Len(out[i].path) = 2

\* Every parent is NULL or a folder of the table, and no chain cycles.
IsForest(tbl) ==
    \A k \in DOMAIN tbl :
        tbl[k].parent_pk \in DOMAIN tbl \cup {0} /\ ~ReachesCycle(tbl, k)

RECURSIVE Depth(_, _)
Depth(tbl, pk) == IF tbl[pk].parent_pk = 0 THEN 1 ELSE 1 + Depth(tbl, tbl[pk].parent_pk)

\* The k-th ancestor of pk (pk itself for k = 0) in a forest.
RECURSIVE Ancestor(_, _, _)
Ancestor(tbl, pk, k) == IF k = 0 THEN pk ELSE Ancestor(tbl, tbl[pk].parent_pk, k - 1)

\* C14: in a forest the path of every folder lists the names from its root
\* down to itself: as long as the folder is deep, its own name last.
C14_ForestPaths ==
    IsForest(by_pk) =>
        /\ \A i \in DOMAIN out :
             LET f == out[i] d == Depth(by_pk, out[i].pk)
             IN /\ f.path # <<>>
                /\ Len(f.path) = d
                /\ f.path[Len(f.path)] = by_pk[f.pk].name
                /\ \A j \in 1..d : f.path[j] = by_pk[Ancestor(by_pk, f.pk, d - j)].name
        /\ lpc = "done" => (listed.ok \/ listed.kind = "store")
        /\ (lpc = "done" /\ listed.ok) =>
             /\ Len(out) = Cardinality(DOMAIN by_pk)
             /\ {out[i].pk : i \in DOMAIN out} = DOMAIN by_pk

C14_Witness ==
    /\ IsForest(by_pk) /\ lpc = "done" /\ listed.ok
    /\ \E i \in DOMAIN out : Len(out[i].path) = MaxFolders
    /\ Len(out) = MaxFolders

\* t without the NULs and then the whitespace at its two ends.
Between(t, keep(_)) ==
    LET kept == {i \in DOMAIN t : keep(t[i])}
    IN IF kept = {} THEN <<>>
       ELSE SubSeq(t, CHOOSE i \in kept : \A j \in kept : i <= j,
                      CHOOSE i \in kept : \A j \in kept : j <= i)

NotNul(c) == c # 0

NotSpace(c) == c \notin {9, 10, 11, 12, 13, 32}

Core(t) == Between(Between(t, NotNul), NotSpace)

\* t with every CR LF and every other CR turned into LF.
UnixLines(t) ==
    LET keep == {i \in DOMAIN t : ~(t[i] = 10 /\ i > 1 /\ t[i - 1] = 13)}
        pos == [k \in 1..Cardinality(keep) |->
                   CHOOSE i \in keep : Cardinality({j \in keep : j < i}) = k - 1]
    IN [k \in 1..Cardinality(keep) |-> IF t[pos[k]] = 13 THEN 10 ELSE t[pos[k]]]

Decoded == fn = "decode_note_markdown" /\ ret # NoResult

\* C15 as stated: for a text t that passes the human-text test, decoding t
\* or gzip(t) gives t with its line endings normalised, exactly.
C15_DecodeExact ==
    (Decoded /\ looks_like_human_text(args[1]))
        => (ret.ok /\ ret.text = UnixLines(args[1]))

\* C15: for a text t whose form without the NULs and whitespace at its ends
\* passes the human-text test, decoding t or gzip(t) gives that stripped
\* form with its line endings normalised, exactly.
C15_DecodeExactOnStripped ==
    (Decoded /\ looks_like_human_text(Core(args[1])))
        => (ret.ok /\ ret.text = UnixLines(Core(args[1])))

C15_Witness ==
    /\ Decoded /\ args[2] = "gzip" /\ ret.ok
    /\ looks_like_human_text(Core(args[1]))
    /\ Core(args[1]) # args[1]
    /\ \E i \in DOMAIN ret.text : ret.text[i] = 10
    /\ ret.text # Core(args[1])

NotTitleSpace(c) == c \notin {" ", "\t", "\n", "\r"}

FirstN(t, n) == SubSeq(t, 1, IF Len(t) < n THEN Len(t) ELSE n)

\* The part of an id after its last "/", the whole id when it has none.
AfterLastSlash(id) ==
    LET slashes == {i \in DOMAIN id : id[i] = "/"}
    IN IF slashes = {} THEN id
       ELSE SubSeq(id, (CHOOSE i \in slashes : \A j \in slashes : j <= i) + 1, Len(id))

NonEmpty(part) == part # <<>>

PathBuilt == fn = "export_path" /\ ret # NoResult

\* The directory lies under the root and the sanitized folder segments, and
\* the test's title and id give HelloWorld-p123.
UnderFolders ==
    /\ Len(ret.dir) >= 1
    /\ SubSeq(ret.dir, 1, Len(ret.dir) - 1)
         = Root \o SelectSeq([i \in DOMAIN args[1] |-> sanitize(args[1][i])], NonEmpty)
    /\ (args[2] = HelloWorld /\ args[3] = TestNoteId) =>
         ret.dir[Len(ret.dir)]
            = <<"H", "e", "l", "l", "o", "W", "o", "r", "l", "d", "-", "p", "1", "2", "3">>

CharOf(c) ==
    CASE c = 10 -> "\n"
      [] c = 32 -> " "
      [] c = 35 -> "#"
      [] c = 72 -> "H"
      [] c = 105 -> "i"
      [] c \in 48..57 -> DigitChars[c - 47]
      [] OTHER -> "?"

\* The text of a contents.md, which the db flavor holds as code points.
ContentsText(content) ==
    IF flavor = "db" THEN [i \in DOMAIN content |-> CharOf(content[i])] ELSE content

Heading(title) == <<"#", " ">> \o title \o <<"\n", "\n">>

StartsWith(text, prefix) ==
    Len(text) >= Len(prefix) /\ SubSeq(text, 1, Len(prefix)) = prefix

\* C17: every contents.md on disk, of either flavor, begins with "# ", the
\* title of the note of its directory, and a blank line.
C17_ContentsBeginWithHeading ==
    \A p \in DOMAIN fs :
        p.file = "contents.md" =>
            \A n \in 1..numNotes :
                p.dir[Len(p.dir)] = DirNameOf(n) =>
                    StartsWith(ContentsText(fs[p]), Heading(NoteTitle(n)))

\* The files of note n hold what the current run writes for it.
HoldsCurrent(n) ==
    LET item == FirstItem(n).item
    IN \A k \in 2..Len(WriteSteps(item)) :
         /\ File(item.note_dir, WriteSteps(item)[k]) \in DOMAIN fs
         /\ fs[File(item.note_dir, WriteSteps(item)[k])] = StepContent(item, WriteSteps(item)[k])

\* C18: in a run into the tree an earlier run left, the files of every
\* note written hold the current content whatever they held before, and a
\* run that returns success with every note written leaves exactly the
\* files, contents and directories of one run into an empty root.
C18_RerunLeavesSameTree ==
    /\ \A n \in 1..numNotes : noteState[n] = "Written" => HoldsCurrent(n)
    /\ (Returned /\ result.ok /\ AllWritten) =>
           (fs = Exported(numNotes).fs /\ dirs = Exported(numNotes).dirs)

C18_Witness ==
    /\ Returned /\ result.ok /\ AllWritten
    /\ numNotes >= 2 /\ include_html
    /\ fs = Exported(numNotes).fs
    /\ \A p \in DOMAIN fs : fs[p] # Stale(Exported(numNotes)).fs[p]

Parsed == fn = "parse_coredata_pk" /\ ret # NoResult

HasSlash(id) == \E i \in DOMAIN id : id[i] = "/"

\* Whether t is a decimal number, with or without a sign.
Numeric(t) ==
    \E k \in 0..1 :
        /\ Len(t) > k
        /\ k = 1 => t[1] \in {"+", "-"}
        /\ \A i \in (k + 1)..Len(t) : t[i] \in Range(DigitChars)

\* The rendered id of every key parses to that key.
C19_RoundTrip ==
    Parsed =>
        /\ \A pk \in Pks :
             args \in {NoteIdOf(pk), FolderIdOf(pk)} => ret = [ok |-> TRUE, pk |-> pk]
        /\ args = TestNoteId => ret = [ok |-> TRUE, pk |-> 123]

\* An id whose last segment has no p prefix, or has something other than a
\* number after the p, is rejected.
C19_BadSegmentRejected ==
    Parsed =>
        /\ (AfterLastSlash(args) = <<>> \/ AfterLastSlash(args)[1] # "p") => ~ret.ok
        /\ (AfterLastSlash(args) # <<>> /\ ~Numeric(Tail(AfterLastSlash(args)))) => ~ret.ok

\* C19: the rendered id of every key parses to that key, and an id whose
\* last segment has no p prefix, or no number after the p, or that has no
\* path separator at all, is rejected.
C19_ParseRejectsMalformed ==
    /\ C19_RoundTrip
    /\ C19_BadSegmentRejected
    /\ (Parsed /\ ~HasSlash(args)) => ~ret.ok

Selected == fn = "select_note_dates" /\ ret # NoResult /\ ret.ok

\* The first candidate of the list that is not null, null when all are.
FirstNonNull(candidates) ==
    IF \A i \in DOMAIN candidates : candidates[i] = <<>> THEN <<>>
    ELSE candidates[CHOOSE i \in DOMAIN candidates :
                        /\ candidates[i] # <<>>
                        /\ \A j \in 1..(i - 1) : candidates[j] = <<>>]

InstantOf(field) ==
    [unix |-> AppleEpoch,
     ms |-> IF field[1] >= 0 THEN field[1] \div TicksPerMilli
            ELSE 0 - ((0 - field[1]) \div TicksPerMilli)]

\* C20: created_at is the instant of the first non-null of ZCREATIONDATE3,
\* 2, 1; modified_at is the instant of the first non-null of
\* ZMODIFICATIONDATE1, ZMODIFICATIONDATEATIMPORT, and equals created_at when
\* both are null.
C20_FirstNonNullInPriorityOrder ==
    Selected =>
        LET creation == FirstNonNull(<<args.c3, args.c2, args.c1>>)
            modification == FirstNonNull(<<args.m1, args.m2>>)
        IN /\ creation # <<>> => ret.created_at = InstantOf(creation)
           /\ modification # <<>> => ret.modified_at = InstantOf(modification)
           /\ modification = <<>> => ret.modified_at = ret.created_at

C20_Witness ==
    /\ Selected
    /\ args.c3 = <<>> /\ args.c2 = <<MaxStamp>> /\ args.c1 = <<0 - MaxStamp>>
    /\ args.m1 = <<>> /\ args.m2 = <<>>
    /\ ret.created_at = InstantOf(<<MaxStamp>>)
    /\ ret.modified_at = ret.created_at

\* The worker threads of the run have been spawned.
PoolStarted == \E w \in Workers : wpc[w] # "unborn"

\* C21 (the flag is never cleared): a step never takes stop from set to unset.
C21_StopNeverCleared == [][stop => stop']_vars

\* C21 (workers): after the threads have ended, a run in which a worker
\* failed has the flag set.
C21_WorkerErrorSetsStop ==
    (Returned /\ PoolStarted /\ \E e \in errs : e.by # Producer) => stop

\* C21: after a run with a worker pool in which a worker or the producer
\* failed, the cancellation flag is set.
C21_ErrorSetsStop ==
    (Returned /\ PoolStarted /\ errs # {}) => stop

\* The notes whose task the producer has put on the queue: the listing up to
\* idx, in listing order.
SentNotes == 1..(idx - 1)

\* C22: when a run with jobs > 1 returns, every task the producer sent has
\* been reported on the completion channel as written or failed: none is
\* still queued and none was dropped by a worker.
C22_EverySentTaskReported ==
    (Returned /\ PoolStarted /\ PoolSize > 1) =>
        /\ work = <<>>
        /\ \A n \in SentNotes : noteState[n] \in {"Written", "Failed"}

\* C23 (as stated): once the cancellation flag is set the queue is left alone:
\* the producer appends no task to it and no worker removes one from it.
C23_QueueFrozenOnceStopped == [][stop => work' = work]_vars

\* Worker w begins a unit of work in this step: it leaves the check of the
\* flag with its task and goes on to write it.
StartsUnit(w) == wpc[w] = "check" /\ wpc'[w] = "work"

\* The producer begins a unit in this step: it leaves the check at the top of
\* its loop and goes on to build or send the next task.
ProducerStartsUnit == pc = "loop" /\ pc' \in {"build", "send"}

\* C23: once the cancellation flag is set no unit is started: a worker that
\* checks the flag drops the task it holds and exits, and the producer that
\* checks the flag at the top of its loop builds and sends no further task.
\* A task already past its check may still be sent or written.
C23_NoUnitStartedOnceStopped ==
    [][stop => /\ ~ProducerStartsUnit
               /\ \A w \in Workers : ~StartsUnit(w)]_vars

\* C23 witness: the flag is set while a worker holds a task it has received
\* and not yet checked, and the producer is at the top of its loop with notes
\* still to send.
C23_Witness ==
    /\ stop
    /\ pc = "loop" /\ idx <= Len(notes)
    /\ \E w \in Workers : wpc[w] = "check"

\* The get_note calls of the run so far, in the order they were made.
GetNoteCalls == SelectSeq(calls, LAMBDA c : c.op = "get_note")

\* C24: in an export_all run, with or without a pool, the i-th get_note call
\* is made by the producer thread and fetches the i-th note of the listing:
\* the calls follow the listing order, no note is fetched twice, and no
\* backend call at all is made by a worker thread.
C24_GetNoteOnceInListingOrder ==
    flavor = "bridge" =>
        /\ \A i \in DOMAIN calls : calls[i].by = Producer
        /\ Len(GetNoteCalls) <= Len(notes)
        /\ \A i \in DOMAIN GetNoteCalls : GetNoteCalls[i].note = notes[i].pk

\* C24 witness: a pool run of export_all has returned after fetching every
\* note of a listing of at least two notes while workers were writing.
C24_Witness ==
    /\ flavor = "bridge"
    /\ Returned /\ PoolStarted
    /\ Len(notes) >= 2
    /\ Len(GetNoteCalls) = Len(notes)
    /\ \E n \in 1..numNotes : noteState[n] = "Written"

\* min(jobs, 16), written out.
CappedJobs == IF jobs <= JobsCap THEN jobs ELSE JobsCap

\* The worker threads the run has started.
Started == {w \in DOMAIN wpc : wpc[w] # "unborn"}

\* C25: a run with a pool has started exactly min(jobs, 16) workers, and the
\* tasks sent and not yet taken by a worker never number more than
\* 2 * min(jobs, 16).
C25_PoolAndQueueBounded ==
    /\ PoolStarted => Cardinality(Started) = CappedJobs
    /\ Len(work) <= QueueFactor * CappedJobs

\* C25 (blocking): a task is added to the queue only when the queue holds
\* fewer than 2 * min(jobs, 16) tasks.
C25_SendWaitsForRoom ==
    [][Len(work') > Len(work) => Len(work) < QueueFactor * CappedJobs]_vars

\* C25 witness: the producer holds a task to send while the queue is full and
\* a worker is still alive, so it is blocked in send.
C25_Witness ==
    /\ pc = "send"
    /\ Len(work) = QueueFactor * CappedJobs
    /\ \E w \in Started : wpc[w] # "exit"

\* A run asked for more jobs than the cap and has started its workers.
C25_OverCapStarted == jobs > JobsCap /\ PoolStarted /\ Returned

\* The note a task of the queue is about.
TaskNote(task) == IF flavor = "bridge" THEN task.note ELSE task.pk

\* The workers that hold a task of note n, and the places of the queue that
\* hold one.
Holders(n) == {w \in Workers : witem[w] # NoItem /\ TaskNote(witem[w]) = n}

Queued(n) == {i \in DOMAIN work : TaskNote(work[i]) = n}

\* The files of the tree that lie in the directory of note n.
NoteDirs == [n \in 1..MaxNotes |-> DirNameOf(n)]

FilesOfNote(tree, n) ==
    {p \in DOMAIN tree : p.dir # <<>> /\ p.dir[Len(p.dir)] = NoteDirs[n]}

\* The files of a note directory in the order write_item writes them, after
\* it has created the directory; contents.html is written for some notes only.
FileOrder == <<"create", "metadata.json", "contents.md", "contents.html">>

\* The files write_item has written when its step failAt fails.
WrittenBefore ==
    [failAt \in Range(FileOrder) |->
        {FileOrder[k] : k \in {i \in DOMAIN FileOrder : \A j \in 1..i : FileOrder[j] # failAt}}
        \ {"create"}]

\* The errors that end a unit before it writes anything.
BeforeWrite == {"get_note", "unknown_folder", "load", "invalid_id"}

Fetched(n) ==
    flavor = "bridge" => \E i \in DOMAIN calls : calls[i] = Call("get_note", n)

\* The moves of a note's state: forward one stage at a time (a unit of
\* export_all_db fetches, builds and writes in one call), or to Failed from a
\* stage that is not final.
Moves ==
    {<<"Pending", "Built">>, <<"Built", "Written">>,
     <<"Pending", "Failed">>, <<"Built", "Failed">>}
    \cup (IF flavor = "db" THEN {<<"Pending", "Written">>} ELSE {})

\* C26 (stages): a note that is not yet written or failed has no file; a
\* built or written note of export_all was fetched; a written note has its
\* metadata.json and contents.md; a failed note has an error of its own and only the files
\* written before the step that failed; no note is held by two workers or
\* queued twice, and a note that is queued or held is not yet final.
C26_Stages ==
    \A n \in 1..numNotes :
        LET names == {p.file : p \in FilesOfNote(fs, n)}
        IN /\ noteState[n] \in {"Pending", "Built"} => FilesOfNote(fs, n) = {}
           /\ noteState[n] \in {"Built", "Written"} => Fetched(n)
           /\ noteState[n] = "Written" =>
                 /\ {"metadata.json", "contents.md"} \subseteq names
                 /\ names \subseteq Range(FileOrder)
           /\ noteState[n] = "Failed" =>
                 \E e \in errs :
                    /\ e.note = n
                    /\ names = IF e.kind \in BeforeWrite THEN {}
                               ELSE WrittenBefore[e.kind]
           /\ Cardinality(Holders(n)) + Cardinality(Queued(n)) <= 1
           /\ Holders(n) \cup Queued(n) # {} =>
                 noteState[n] = (IF flavor = "bridge" THEN "Built" ELSE "Pending")

\* C26 (moves): a step changes the state of a note only along Moves, and it
\* changes no file of a note that is written or failed.
C26_Moves ==
    \A n \in 1..numNotes :
        /\ noteState'[n] # noteState[n] => <<noteState[n], noteState'[n]>> \in Moves
        /\ noteState[n] \in {"Written", "Failed"} =>
              \/ fs' = fs
              \/ /\ FilesOfNote(fs', n) = FilesOfNote(fs, n)
                 /\ \A p \in FilesOfNote(fs, n) : fs'[p] = fs[p]

\* C26: every note of a run goes Pending, (Fetched and) Built, Written, or to
\* Failed from a stage that is not final; it is written only after it is
\* built and fetched, handled by at most one worker and at most once, and
\* after a step of it has failed none of its files is written.
C26_NoteLifeCycle == []C26_Stages /\ [][C26_Moves]_vars

\* C26 witness: a pool run has returned with one note written and another
\* failed at contents.md, after its metadata.json was written.
C26_Witness ==
    /\ Returned /\ PoolStarted
    /\ \E n \in 1..numNotes : noteState[n] = "Written"
    /\ \E e \in errs :
          /\ e.kind = "contents.md"
          /\ noteState[e.note] = "Failed"
          /\ {p.file : p \in FilesOfNote(fs, e.note)} = {"metadata.json"}

\* The decoded bytes are not returned as human text: they are not UTF-8, or
\* their trimmed text fails the test.
NotHuman == ~(IsUtf8(args[1]) /\ looks_like_human_text(Core(args[1])))

\* The places where text s is split, with both of its ends.
Marks(s) == {0, Len(s) + 1} \cup {i \in DOMAIN s : IsBreak(s[i])}

\* The runs of s, each as the pair of marks around it.
Runs(s) ==
    {p \in Marks(s) \X Marks(s) :
        p[1] < p[2] /\ \A m \in Marks(s) : ~(p[1] < m /\ m < p[2])}

RunText(s, p) == SubSeq(s, p[1] + 1, p[2] - 1)

\* max(0, alnum_count - length / 4) + min(whitespace_count, 200)
RunScore(r) ==
    LET alnum == Cardinality({i \in DOMAIN r : IsAlnum(r[i])})
        ws == Cardinality({i \in DOMAIN r : ~NotSpace(r[i])})
        quarter == Len(r) \div 4
    IN (IF alnum > quarter THEN alnum - quarter ELSE 0)
       + (IF ws < WsCap THEN ws ELSE WsCap)

Whole(r) == r

Trimmed(r) == Between(r, NotSpace)

\* What the decoder returns for text s when each run that is not empty or
\* whitespace only is taken in the given shape: the normalized run of highest
\* score, the earliest of them, or the error when no run scores above
\* ScoreThreshold.
Extracted(s, shape(_)) ==
    LET kept == {p \in Runs(s) : Trimmed(RunText(s, p)) # <<>>}
        score(p) == RunScore(shape(RunText(s, p)))
        top == {p \in kept : score(p) > ScoreThreshold}
    IN IF top = {}
       THEN [ok |-> FALSE, text |-> <<>>, err |-> "could not extract text from note blob"]
       ELSE LET best == CHOOSE p \in top :
                           \A q \in top :
                              \/ score(q) < score(p)
                              \/ score(q) = score(p) /\ p[1] <= q[1]
            IN [ok |-> TRUE, text |-> normalize_text(shape(RunText(s, best))), err |-> ""]

\* C27 (as stated): for an input that is not human text the decoder scores
\* and returns the runs between the split points as they are.
C27_ExtractBestRun ==
    (Decoded /\ NotHuman) => ret = Extracted(from_utf8_lossy(args[1]), Whole)

\* C27: for an input that is not human text the decoder splits the text at
\* every control character other than newline, CR and tab and at every
\* replacement character, trims each run, drops the empty ones, scores each
\* trimmed run as max(0, alnum - length / 4) + min(whitespace, 200) and returns
\* the normalized trimmed run of highest score; it fails with "could not
\* extract text from note blob" exactly when no trimmed run scores above 20.
C27_ExtractBestTrimmedRun ==
    (Decoded /\ NotHuman) => ret = Extracted(from_utf8_lossy(args[1]), Trimmed)

\* C27 witness: an input that is not UTF-8 holds two runs that score above
\* the threshold, and the decoder has returned the second, whose score is
\* the higher only because whitespace counts up to WsCap.
C27_Witness ==
    /\ Decoded /\ NotHuman
    /\ args[1] = <<255>> \o WideGap \o <<1>> \o DenseGap
    /\ ret.ok /\ ret.text = DenseGap

\* export_path has been called for both notes.
PathsBuilt == fn = "export_path" /\ ret # NoResult

\* C28: two notes of one listing whose ids differ are given different note
\* directories.
C28_DistinctIdsDistinctDirs ==
    (PathsBuilt /\ args[1][3] # args[2][3]) => ret.dir # ret.other

\* C28 (ids of one store): two notes whose ids differ in their last segment,
\* neither segment holding a "-", are given different note directories.
C28_DistinctSegmentsDistinctDirs ==
    (/\ PathsBuilt
     /\ LastSegment(args[1][3]) # LastSegment(args[2][3])
     /\ "-" \notin Range(LastSegment(args[1][3]))
     /\ "-" \notin Range(LastSegment(args[2][3])))
        => ret.dir # ret.other

\* Two notes of the same folder and title whose ids differ only before the
\* last segment have been given one directory.
C28_SameSegmentCollides ==
    /\ PathsBuilt
    /\ args[1] = <<(<<Personal>>), (<<"A">>), (<<"S", "/", "p", "1">>)>>
    /\ args[2] = <<(<<Personal>>), (<<"A">>), (<<"T", "/", "p", "1">>)>>
    /\ ret.dir = ret.other

\* note_dir_name has been called.
Named == fn = "note_dir_name" /\ ret # NoResult

\* The part of a returned name before the final "-" and id segment.
TitlePart == SubSeq(ret.name, 1, Len(ret.name) - Len(LastSegment(args[2])) - 1)

\* C29: note_dir_name returns a name for every title, and the title part of
\* the name has at most 80 characters.
C29_NameNeverAborts ==
    Named => ret.ok /\ Len(TitlePart) <= MaxTitleBytes

\* C29 (when it returns): a name that is returned has a title part of at
\* most 80 bytes.
C29_ReturnedNameIsShort ==
    (Named /\ ret.ok) => ByteLen(TitlePart) <= MaxTitleBytes

\* A title of 79 one-byte characters and one two-byte character has made
\* note_dir_name panic.
C29_PanicReached ==
    /\ Named
    /\ args[1] = Rep("H", MaxTitleBytes - 1) \o <<EAcute>>
    /\ ~ret.ok

\* C30: the title part of a returned name is never empty.
C30_TitlePartNeverEmpty ==
    (Named /\ ret.ok) => TitlePart # <<>>

\* C30 (titles that trim to nothing): an empty or whitespace-only title
\* gives the title part "Untitled".
C30_BlankTitleIsUntitled ==
    (Named /\ ret.ok /\ Trim(args[1]) = <<>>) => TitlePart = Untitled

\* The title "/" has given a name that begins with "-".
C30_EmptyPartReached ==
    /\ Named /\ ret.ok
    /\ args[1] = <<"/">>
    /\ ret.name = <<"-">> \o LastSegment(args[2])

====
